---- MODULE Spec2Model ----
(***************************************************************************)
(* Auto-Quotation (Cotizador Agromaq).                                     *)
(*                                                                         *)
(* Three specifications over one set of variables:                         *)
(*   Spec        the quotation form (App in AdminPanel.tsx, lines 705 on): *)
(*               the catalog load, the discount and line-item handlers and *)
(*               the values computed on every render;                      *)
(*   PriceSpec   the pricing computation of the form as a pure function of *)
(*               line items, discount percent and catalog, applied to      *)
(*               inputs drawn from bounded sets;                           *)
(*   ImportSpec  the price-list import wizard (PriceListImport.tsx) with   *)
(*               the Import Reconciler and the Catalog Store behind it.    *)
(*                                                                         *)
(* Amounts are integers.  Catalog prices are multiples of 100 and discount *)
(* percents are whole numbers, so x * pct / 100 is exact, as it is in the  *)
(* IEEE doubles of the program for these values.                           *)
(***************************************************************************)
EXTENDS Integers, Sequences, FiniteSets, Bags, TLC

VARIABLES
    \* ---- quotation form (App) ----
    machines,           \* useState<MachineFromAPI[]>: the loaded catalog
    isLoadingMachines,  \* useState(true)
    discountPercent,    \* form.discountPercent
    lineItems,          \* useState<LineItem[]>
    now,                \* the clock read by Date.now()
    exchangeRate,       \* the current ExchangeRate of the Catalog Store
    rendered,           \* the computed values below belong to the inputs above
    lineItemDetails,    \* computed on render
    grandSubtotal,      \* computed on render
    discountAmount,     \* computed on render
    grandTotal,         \* computed on render
    lastCall,           \* the handler that ran last, with its arguments
    sent,               \* the generate-quote request sent last: its body and
                        \* the line items it was built from
    \* ---- price-list import ----
    catalog,            \* Catalog Store: the machine rows, in creation order
    step,               \* wizard step
    preview,            \* wizard: PreviewData | null
    products,           \* wizard: ParsedProduct[] with _selected/_expanded
    conditions,         \* wizard: ParsedCondition[]
    replaceExisting,    \* wizard: checkbox
    result,             \* wizard: ConfirmResult | null
    error,              \* wizard: string | null
    network,            \* requests and responses in flight
    nextReq,            \* number of requests issued so far
    edits,              \* number of review operations so far
    history,            \* the confirm calls the Reconciler has applied
    issued,             \* per request of the wizard, while it is
                        \* outstanding: what the wizard held when it was
                        \* started and whether reset has run since
    \* ---- admin panel and the stores behind it ----
    adminList,          \* AdminPanel: useState<Machine[]>
    calls,              \* Reconciler: the confirm calls in progress
    ops,                \* number of admin operations so far
    \* ---- quotation history (QuotationsPanel) and the Quotation Store ----
    quotations,         \* Quotation Store: the quotation rows, id = position
    trail,              \* per quotation: its state after create, and the
                        \* operations applied to it since
    returned,           \* per includeDeleted and offset: the page the
                        \* server returned last for them (kept in PageSpec)
    shownItems,         \* useState<AdminQuotation[]>: items
    total,              \* useState(0)
    offset,             \* useState(0)
    includeDeleted,     \* useState(false)
    loading,            \* useState(false)
    listError,          \* useState<string | null>: error
    message,            \* useState<{type, text} | null>
    searchTimer,        \* the effect on [search]: its 350 ms timer
    qnet,               \* requests and responses of the panel in flight,
                        \* a bag
    qOps,               \* number of requests the operator has started
    \* ---- settings (SettingsPanel) and the payment conditions behind it ----
    newCond,            \* useState({ name, discount_percent, description })
    savingCond,         \* useState(false)
    paymentConditions,  \* useState<PaymentCondition[]>: conditions
    msg,                \* useState<{type, text} | null>
    conditionStore,     \* the payment conditions the server holds
    snet,               \* requests and responses of the panel in flight,
                        \* a bag
    sOps,               \* number of operations of the operator so far
    rate,               \* useState<ExchangeRate | null>
    manualRate,         \* useState('')
    loadingRate,        \* useState(false)
    loadingBna,         \* useState(false)
    storedRate          \* the exchange rate the server holds

formVars == <<machines, isLoadingMachines, discountPercent, lineItems, now,
              exchangeRate, rendered, lineItemDetails, grandSubtotal,
              discountAmount, grandTotal, lastCall, sent>>

importVars == <<catalog, step, preview, products, conditions, replaceExisting,
                result, error, network, nextReq, edits, history, issued>>

adminVars == <<adminList, calls, ops>>

quotationVars == <<quotations, trail, returned, shownItems, total, offset, includeDeleted,
                   loading, listError, message, searchTimer, qnet, qOps>>

rateVars == <<rate, manualRate, loadingRate, loadingBna, storedRate>>

settingsVars == <<newCond, savingCond, paymentConditions, msg, conditionStore,
                  snet, sOps, rateVars>>

panelVars == <<adminVars, quotationVars, settingsVars>>

vars == <<machines, isLoadingMachines, discountPercent, lineItems, now,
          exchangeRate, rendered, lineItemDetails, grandSubtotal,
          discountAmount, grandTotal, lastCall, sent,
          catalog, step, preview, products, conditions, replaceExisting,
          result, error, network, nextReq, edits, history, issued,
          adminList, calls, ops,
          quotations, trail, returned, shownItems, total, offset,
          includeDeleted, loading, listError, message, searchTimer, qnet, qOps,
          newCond, savingCond, paymentConditions, msg, conditionStore,
          snet, sOps, rate, manualRate, loadingRate, loadingBna, storedRate>>

----------------------------------------------------------------------------
(* Bounds *)

MaxQty == 3         \* largest quantity a line reaches
MaxLines == 3       \* most line items in the form
MaxTime == 1        \* last clock value

----------------------------------------------------------------------------
(* JavaScript values *)

\* price: number | null -- null is carried as -1, no catalog price is negative
NullPrice == -1

\* a JS number that may be NaN
Num(n) == [nan |-> FALSE, v |-> n]
NaN == [nan |-> TRUE, v |-> 0]

\* x || d on numbers: NaN and 0 are falsy
OrNumber(x, d) == IF x.nan \/ x.v = 0 THEN d ELSE x.v

\* Math.max(a, b)
MathMax(a, b) == IF a >= b THEN a ELSE b

\* the texts typed into the number inputs of the form
RawNumbers == {"", "0", "1", "2", "2.7", "3", "5", "50", "100", "150", "-10", "-3"}

\* parseFloat(value), restricted to RawNumbers with whole-number results
\* ("2.7" is only offered to parseInt)
parseFloat(s) ==
    CASE s = ""    -> NaN
      [] s = "0"   -> Num(0)
      [] s = "1"   -> Num(1)
      [] s = "2"   -> Num(2)
      [] s = "3"   -> Num(3)
      [] s = "5"   -> Num(5)
      [] s = "50"  -> Num(50)
      [] s = "100" -> Num(100)
      [] s = "150" -> Num(150)
      [] s = "-10" -> Num(0 - 10)
      [] s = "-3"  -> Num(0 - 3)

\* parseInt(value): truncates the fraction
parseInt(s) ==
    CASE s = ""    -> NaN
      [] s = "2.7" -> Num(2)
      [] OTHER     -> parseFloat(s)

----------------------------------------------------------------------------
(* Catalog rows as the form sees them (MachineFromAPI / Machine) *)

Currencies == {"USD", "ARS"}

Machine(code, name, price, currency, active) ==
    [code |-> code, name |-> name, price |-> price,
     price_currency |-> currency, active |-> active]

\* findMachineByCode: the first machine with that code, or null (<<>>)
findMachineByCode(code, ms) ==
    LET hits == {i \in DOMAIN ms : ms[i].code = code}
    IN  IF hits = {} THEN <<>>
        ELSE <<ms[CHOOSE i \in hits : \A j \in hits : i <= j]>>

----------------------------------------------------------------------------
(* Computed values of the quotation form *)

\* const unitPrice = machine?.price ?? 0
UnitPriceUnguarded(machine) ==
    IF machine = <<>> THEN NullPrice ELSE machine[1].price

UnitPriceConverted(machine) ==
    IF machine = <<>> THEN 0
    ELSE IF machine[1].price = NullPrice THEN 0
    ELSE IF machine[1].price_currency = "USD"
         THEN machine[1].price * exchangeRate
         ELSE machine[1].price

UnitPrice(machine) ==
    IF machine = <<>> THEN 0
    ELSE IF machine[1].price = NullPrice THEN 0 ELSE machine[1].price

\* const subtotal = unitPrice * item.quantity
SubtotalAdded(unitPrice, quantity) == unitPrice + quantity

Subtotal(unitPrice, quantity) == unitPrice * quantity

\* lineItems.map(item => ({ ...item, machine, unitPrice, subtotal }))
LineItemDetails(items, ms) ==
    [i \in DOMAIN items |->
        LET machine == findMachineByCode(items[i].machineCode, ms)
            unitPrice == UnitPrice(machine)
        IN  [id |-> items[i].id,
             machineCode |-> items[i].machineCode,
             quantity |-> items[i].quantity,
             machine |-> machine,
             unitPrice |-> unitPrice,
             subtotal |-> Subtotal(unitPrice, items[i].quantity)]]

\* lineItemDetails.reduce((sum, i) => sum + i.subtotal, 0)
RECURSIVE GrandSubtotal(_)
GrandSubtotal(details) ==
    IF details = <<>> THEN 0
    ELSE GrandSubtotal(SubSeq(details, 1, Len(details) - 1))
         + details[Len(details)].subtotal

\* (grandSubtotal * form.discountPercent) / 100
DiscountAmount(subtotal, pct) == (subtotal * pct) \div 100

\* grandSubtotal - discountAmount
GrandTotalAdded(subtotal, discount) == subtotal + discount

GrandTotal(subtotal, discount) == subtotal - discount

\* the record kept in lastCall
Call(handler, id, text, num) ==
    [handler |-> handler, id |-> id, text |-> text, num |-> num]

\* one render of App for the given state
Render(items, pct, ms) ==
    LET details == LineItemDetails(items, ms)
        sub == GrandSubtotal(details)
        disc == DiscountAmount(sub, pct)
    IN  /\ lineItemDetails' = details
        /\ grandSubtotal' = sub
        /\ discountAmount' = disc
        /\ grandTotal' = GrandTotal(sub, disc)
        /\ rendered' = TRUE

----------------------------------------------------------------------------
(* The quotation form: handlers of App *)

LineItem(id, code, quantity) ==
    [id |-> id, machineCode |-> code, quantity |-> quantity]

\* `${code}-${Date.now()}`
LineItemId(code, t) == code \o "-" \o ToString(t)

\* what GET /machines may answer
FormCatalogs ==
    { << Machine("X1", "Tolva", p1, "USD", TRUE),
         Machine("X2", "Acoplado", 500, "ARS", a2),
         Machine("X3", "Sinfin", 100, "USD", FALSE) >> :
      p1 \in {0, 1000}, a2 \in BOOLEAN }

\* data.filter(m => m.active)
ActiveOnly(ms) == SelectSeq(ms, LAMBDA m : m.active)

\* the texts typed into the discount input, and the quick buttons
DiscountTexts == {"", "0", "5", "50", "100", "150", "-10"}
QuickDiscounts == {5, 10, 15, 20}

\* the texts typed into a quantity input
QuantityTexts == {"", "0", "1", "2", "2.7", "3", "-3"}

loadMachinesOk(data) ==
    /\ UNCHANGED sent
    /\ lastCall' = Call("loadMachines", "", "ok", 0)
    /\ isLoadingMachines
    /\ machines' = ActiveOnly(data)
    /\ isLoadingMachines' = FALSE
    /\ Render(lineItems, discountPercent, machines')
    /\ UNCHANGED <<discountPercent, lineItems, now, exchangeRate>>
    /\ UNCHANGED <<importVars, panelVars>>

loadMachinesFail ==
    /\ UNCHANGED sent
    /\ lastCall' = Call("loadMachines", "", "error", 0)
    /\ isLoadingMachines
    /\ machines' = <<>>
    /\ isLoadingMachines' = FALSE
    /\ Render(lineItems, discountPercent, machines')
    /\ UNCHANGED <<discountPercent, lineItems, now, exchangeRate>>
    /\ UNCHANGED <<importVars, panelVars>>

\* name === 'discountPercent' ? parseFloat(value) || 0 : value
handleInputChange(value) ==
    /\ UNCHANGED sent
    /\ lastCall' = Call("handleInputChange", "discountPercent", value, 0)
    /\ discountPercent' = OrNumber(parseFloat(value), 0)
    /\ Render(lineItems, discountPercent', machines)
    /\ UNCHANGED <<machines, isLoadingMachines, lineItems, now, exchangeRate>>
    /\ UNCHANGED <<importVars, panelVars>>

\* discountPercent: prev.discountPercent === pct ? 0 : pct
setQuickDiscount(pct) ==
    /\ UNCHANGED sent
    /\ lastCall' = Call("setQuickDiscount", "", "", pct)
    /\ discountPercent' = IF discountPercent = pct THEN 0 ELSE pct
    /\ Render(lineItems, discountPercent', machines)
    /\ UNCHANGED <<machines, isLoadingMachines, lineItems, now, exchangeRate>>
    /\ UNCHANGED <<importVars, panelVars>>

\* the "Limpiar" button, shown while discountPercent > 0
clearDiscount ==
    /\ UNCHANGED sent
    /\ lastCall' = Call("clearDiscount", "", "", 0)
    /\ discountPercent > 0
    /\ discountPercent' = 0
    /\ Render(lineItems, discountPercent', machines)
    /\ UNCHANGED <<machines, isLoadingMachines, lineItems, now, exchangeRate>>
    /\ UNCHANGED <<importVars, panelVars>>

\* the selectedMachine prop: lineItems[lineItems.length - 1]?.machineCode ?? ''
selectedMachine ==
    IF lineItems = <<>> THEN "" ELSE lineItems[Len(lineItems)].machineCode

HasCodeNever(items, code) == FALSE

HasCode(items, code) == \E i \in DOMAIN items : items[i].machineCode = code

\* MachinerySelector.handleMachineClick (single selection) calling
\* App.handleMachineSelect
handleMachineSelect(code, t) ==
    /\ UNCHANGED sent
    /\ lastCall' = Call("handleMachineSelect", code, "", t)
    /\ \E i \in DOMAIN machines : machines[i].code = code
    /\ selectedMachine # code
    /\ t >= now
    /\ now' = t
    /\ IF HasCode(lineItems, code)
       THEN /\ \A i \in DOMAIN lineItems :
                   lineItems[i].machineCode = code
                       => lineItems[i].quantity < MaxQty
            /\ lineItems' =
                   [i \in DOMAIN lineItems |->
                       IF lineItems[i].machineCode = code
                       THEN [lineItems[i] EXCEPT !.quantity = @ + 1]
                       ELSE lineItems[i]]
       ELSE /\ Len(lineItems) < MaxLines
            /\ lineItems' =
                   Append(lineItems, LineItem(LineItemId(code, t), code, 1))
    /\ Render(lineItems', discountPercent, machines)
    /\ UNCHANGED <<machines, isLoadingMachines, discountPercent, exchangeRate>>
    /\ UNCHANGED <<importVars, panelVars>>

\* MachinerySelector.handleMachineClick (single selection) on the machine
\* that is the selectedMachine prop: onMachineSelect is not called
handleMachineClick(code) ==
    /\ UNCHANGED sent
    /\ lastCall' = Call("handleMachineClick", code, "", 0)
    /\ \E i \in DOMAIN machines : machines[i].code = code
    /\ selectedMachine = code
    /\ UNCHANGED <<machines, isLoadingMachines, discountPercent, lineItems,
                   now, exchangeRate, rendered, lineItemDetails,
                   grandSubtotal, discountAmount, grandTotal>>
    /\ UNCHANGED <<importVars, panelVars>>

removeLineItem(id) ==
    /\ UNCHANGED sent
    /\ lastCall' = Call("removeLineItem", id, "", 0)
    /\ \E i \in DOMAIN lineItems : lineItems[i].id = id
    /\ lineItems' = SelectSeq(lineItems, LAMBDA item : item.id # id)
    /\ Render(lineItems', discountPercent, machines)
    /\ UNCHANGED <<machines, isLoadingMachines, discountPercent, now,
                   exchangeRate>>
    /\ UNCHANGED <<importVars, panelVars>>

\* quantity: Math.max(1, item.quantity + delta)
AdjustedQuantity(quantity, delta) == MathMax(1, quantity + delta)

adjustQuantity(id, delta) ==
    /\ UNCHANGED sent
    /\ lastCall' = Call("adjustQuantity", id, "", delta)
    /\ \E i \in DOMAIN lineItems : lineItems[i].id = id
    /\ \A i \in DOMAIN lineItems :
           lineItems[i].id = id
               => AdjustedQuantity(lineItems[i].quantity, delta) <= MaxQty
    /\ lineItems' =
           [i \in DOMAIN lineItems |->
               IF lineItems[i].id = id
               THEN [lineItems[i] EXCEPT
                        !.quantity = AdjustedQuantity(@, delta)]
               ELSE lineItems[i]]
    /\ Render(lineItems', discountPercent, machines)
    /\ UNCHANGED <<machines, isLoadingMachines, discountPercent, now,
                   exchangeRate>>
    /\ UNCHANGED <<importVars, panelVars>>

\* quantity: Math.max(1, value || 1) with value = parseInt(e.target.value)
InputQuantityUnclamped(value) == OrNumber(value, 1)

InputQuantity(value) == MathMax(1, OrNumber(value, 1))

updateQuantityInput(id, text) ==
    /\ UNCHANGED sent
    /\ lastCall' = Call("updateQuantityInput", id, text, 0)
    /\ \E i \in DOMAIN lineItems : lineItems[i].id = id
    /\ InputQuantity(parseInt(text)) <= MaxQty
    /\ lineItems' =
           [i \in DOMAIN lineItems |->
               IF lineItems[i].id = id
               THEN [lineItems[i] EXCEPT
                        !.quantity = InputQuantity(parseInt(text))]
               ELSE lineItems[i]]
    /\ Render(lineItems', discountPercent, machines)
    /\ UNCHANGED <<machines, isLoadingMachines, discountPercent, now,
                   exchangeRate>>
    /\ UNCHANGED <<importVars, panelVars>>

----------------------------------------------------------------------------
(* The import wizard as constructed, with an empty Catalog Store *)

WizardInit ==
    /\ step = "idle"
    /\ preview = <<>>
    /\ products = <<>>
    /\ conditions = <<>>
    /\ replaceExisting = TRUE
    /\ result = <<>>
    /\ error = <<>>
    /\ network = {}
    /\ nextReq = 0
    /\ edits = 0
    /\ history = <<>>
    /\ issued = <<>>

ImportIdle ==
    /\ catalog = <<>>
    /\ WizardInit

\* QuotationsPanel as constructed and not yet mounted
PanelUnmounted ==
    /\ returned = <<>>
    /\ shownItems = <<>>
    /\ total = 0
    /\ offset = 0
    /\ includeDeleted = FALSE
    /\ loading = FALSE
    /\ listError = <<>>
    /\ message = <<>>
    /\ searchTimer = "unmounted"
    /\ qnet = EmptyBag
    /\ qOps = 0

\* the panel not yet mounted, with an empty Quotation Store
QuotationsIdle ==
    /\ quotations = <<>>
    /\ trail = <<>>
    /\ PanelUnmounted

\* SettingsPanel as constructed and not yet mounted, no payment condition
\* stored
SettingsIdle ==
    /\ newCond = [name |-> "", discount_percent |-> "0", description |-> ""]
    /\ savingCond = FALSE
    /\ paymentConditions = <<>>
    /\ msg = <<>>
    /\ conditionStore = <<>>
    /\ snet = EmptyBag
    /\ sOps = 0
    /\ rate = <<>>
    /\ manualRate = ""
    /\ loadingRate = FALSE
    /\ loadingBna = FALSE
    /\ storedRate = <<>>

\* the admin panel as constructed, no confirm call in progress
PanelIdle ==
    /\ adminList = <<>>
    /\ calls = <<>>
    /\ ops = 0
    /\ QuotationsIdle
    /\ SettingsIdle

----------------------------------------------------------------------------
(* Spec: the quotation form *)

Init ==
    /\ machines = <<>>
    /\ isLoadingMachines = TRUE
    /\ discountPercent = 0
    /\ lineItems = <<>>
    /\ now = 0
    /\ exchangeRate = 1000
    /\ rendered = TRUE
    /\ lineItemDetails = <<>>
    /\ grandSubtotal = 0
    /\ discountAmount = 0
    /\ grandTotal = 0
    /\ lastCall = Call("", "", "", 0)
    /\ sent = <<>>
    /\ ImportIdle
    /\ PanelIdle

Next ==
    \/ \E data \in FormCatalogs : loadMachinesOk(data)
    \/ loadMachinesFail
    \/ \E value \in DiscountTexts : handleInputChange(value)
    \/ \E pct \in QuickDiscounts : setQuickDiscount(pct)
    \/ clearDiscount
    \/ \E i \in DOMAIN machines, t \in 0..MaxTime :
           handleMachineSelect(machines[i].code, t)
    \/ \E i \in DOMAIN machines : handleMachineClick(machines[i].code)
    \/ \E i \in DOMAIN lineItems : removeLineItem(lineItems[i].id)
    \/ \E i \in DOMAIN lineItems, delta \in {0 - 1, 1} :
           adjustQuantity(lineItems[i].id, delta)
    \/ \E i \in DOMAIN lineItems, text \in QuantityTexts :
           updateQuantityInput(lineItems[i].id, text)

Spec == Init /\ [][Next]_vars

-----------------------------------------------------------------------------
(* SubmitSpec: the quotation form with its submit button; the operator
   chooses machines, corrects quantities, removes lines and submits *)

\* `${idx + 1}. ${i.machine?.name ?? i.machineCode} (${i.machineCode})
\* x${i.quantity} — $${i.subtotal.toLocaleString()}`: the parts of the text
ExtraLine(idx, i) ==
    [pos |-> idx,
     name |-> IF i.machine = <<>> THEN i.machineCode ELSE i.machine[1].name,
     machineCode |-> i.machineCode,
     quantity |-> i.quantity,
     subtotal |-> i.subtotal]

\* lineItemDetails.map(...).join('\n')
ExtraLines(details) == [idx \in DOMAIN details |-> ExtraLine(idx, details[idx])]

\* notesText: the entries that are not false, in order; the address and the
\* observations of the form are empty
NotesText(details, pct) ==
    (IF Len(details) > 1
     THEN <<[label |-> "Productos cotizados:", lines |-> ExtraLines(details),
             pct |-> 0]>>
     ELSE <<>>)
    \o (IF pct > 0
        THEN <<[label |-> "Descuento global:", lines |-> <<>>, pct |-> pct]>>
        ELSE <<>>)

\* quotationData, without the client fields typed into the form
QuotationData(details, pct) ==
    [machineCode |-> details[1].machineCode,
     notes |-> NotesText(details, pct),
     applyDiscount |-> pct > 0]

\* handleSubmit up to the fetch: with no line item it alerts and returns
handleSubmit ==
    /\ lastCall' = Call("handleSubmit", "", "", 0)
    /\ sent' = IF Len(lineItems) = 0 THEN sent
               ELSE <<[lineItems |-> lineItems,
                       body |-> QuotationData(lineItemDetails,
                                              discountPercent)]>>
    /\ UNCHANGED <<machines, isLoadingMachines, discountPercent, lineItems,
                   now, exchangeRate, rendered, lineItemDetails,
                   grandSubtotal, discountAmount, grandTotal>>
    /\ UNCHANGED <<importVars, panelVars>>

SubmitNext ==
    \/ \E data \in FormCatalogs : loadMachinesOk(data)
    \/ \E pct \in QuickDiscounts : setQuickDiscount(pct)
    \/ \E i \in DOMAIN machines : handleMachineSelect(machines[i].code, now)
    \/ \E i \in DOMAIN lineItems : removeLineItem(lineItems[i].id)
    \/ \E i \in DOMAIN lineItems, delta \in {0 - 1, 1} :
           adjustQuantity(lineItems[i].id, delta)
    \/ handleSubmit

SubmitSpec == Init /\ [][SubmitNext]_vars

----------------------------------------------------------------------------
(* PriceSpec: the pricing computation on inputs drawn from bounded sets *)

\* catalogs: prices known, zero or unknown, in either currency
PriceCatalogs ==
    { << Machine("X1", "Tolva", p1, c1, TRUE),
         Machine("X2", "Acoplado", p2, c2, TRUE) >> :
      p1 \in {1000, 0, NullPrice}, p2 \in {500},
      c1 \in Currencies, c2 \in Currencies }

\* X9 is in no catalog
PriceCodes == {"X1", "X2", "X9"}

PriceLineItems ==
    {LineItem(LineItemId(c, 0), c, q) : c \in PriceCodes, q \in 1..MaxQty}

RECURSIVE SeqsUpTo(_, _)
SeqsUpTo(S, n) ==
    IF n = 0 THEN {<<>>}
    ELSE LET shorter == SeqsUpTo(S, n - 1)
         IN  shorter \cup {Append(q, x) : q \in shorter, x \in S}

DistinctCodes(items) ==
    \A i, j \in DOMAIN items :
        items[i].machineCode = items[j].machineCode => i = j

\* the values form.discountPercent takes in the form
DiscountValues == {0 - 10, 0, 5, 10, 15, 20, 50, 100, 150}

ExchangeRates == {1, 1000}

PriceInit ==
    /\ machines \in PriceCatalogs
    /\ isLoadingMachines = FALSE
    /\ discountPercent \in DiscountValues
    /\ lineItems \in {q \in SeqsUpTo(PriceLineItems, MaxLines) : DistinctCodes(q)}
    /\ now = 0
    /\ exchangeRate \in ExchangeRates
    /\ rendered = FALSE
    /\ lineItemDetails = <<>>
    /\ grandSubtotal = 0
    /\ discountAmount = 0
    /\ grandTotal = 0
    /\ lastCall = Call("", "", "", 0)
    /\ sent = <<>>
    /\ ImportIdle
    /\ PanelIdle

\* the computation applied to the inputs
Price ==
    /\ UNCHANGED sent
    /\ lastCall' = Call("price", "", "", 0)
    /\ ~rendered
    /\ Render(lineItems, discountPercent, machines)
    /\ UNCHANGED <<machines, isLoadingMachines, discountPercent, lineItems,
                   now, exchangeRate>>
    /\ UNCHANGED <<importVars, panelVars>>

\* the same computation after machine i is tagged with another currency
PriceRetagged(i, c) ==
    /\ UNCHANGED sent
    /\ lastCall' = Call("priceRetagged", machines[i].code, c, 0)
    /\ rendered
    /\ machines[i].price_currency # c
    /\ machines' = [machines EXCEPT ![i].price_currency = c]
    /\ Render(lineItems, discountPercent, machines')
    /\ UNCHANGED <<isLoadingMachines, discountPercent, lineItems, now,
                   exchangeRate>>
    /\ UNCHANGED <<importVars, panelVars>>

\* the same computation after the current ExchangeRate changed
PriceRerated(r) ==
    /\ UNCHANGED sent
    /\ lastCall' = Call("priceRerated", "", "", r)
    /\ rendered
    /\ exchangeRate # r
    /\ exchangeRate' = r
    /\ Render(lineItems, discountPercent, machines)
    /\ UNCHANGED <<machines, isLoadingMachines, discountPercent, lineItems,
                   now>>
    /\ UNCHANGED <<importVars, panelVars>>

PriceNext ==
    \/ Price
    \/ \E i \in DOMAIN machines, c \in Currencies : PriceRetagged(i, c)
    \/ \E r \in ExchangeRates : PriceRerated(r)

PriceSpec == PriceInit /\ [][PriceNext]_vars

----------------------------------------------------------------------------
(* Price-list import: values *)

MaxRequests == 3    \* requests the wizard issues in one run
MaxEdits == 2       \* review operations (toggles, edits, checkbox) in one run

\* T | null as a sequence of at most one element
Null == <<>>
Some(x) == <<x>>

\* ParsedProduct as the Parser returns it and as confirm receives it
Product(code, name, price, currency) ==
    [code |-> code, name |-> name, price |-> price, price_currency |-> currency]

\* ParsedProduct with the UI state of the review
Reviewed(p, selected, expanded) ==
    [code |-> p.code, name |-> p.name, price |-> p.price,
     price_currency |-> p.price_currency,
     _selected |-> selected, _expanded |-> expanded]

Condition(name, pct, order) ==
    [name |-> name, discount_percent |-> pct, sort_order |-> order]

PreviewData(prods, conds) ==
    [products |-> prods, payment_conditions |-> conds,
     total_products |-> Len(prods),
     total_with_price |->
         Cardinality({i \in DOMAIN prods : prods[i].price # NullPrice})]

ConfirmResult(imported, updated, errors, conds) ==
    [imported |-> imported, updated |-> updated, errors |-> errors,
     payment_conditions_imported |-> conds]

\* the files the operator drops on the wizard
Files == {"lista.pdf", "ROTA.PDF", "notas.txt"}

\* file.name.toLowerCase().endsWith('.pdf')
EndsWithPdf(name) ==
    CASE name = "lista.pdf" -> TRUE
      [] name = "ROTA.PDF"  -> TRUE
      [] name = "notas.txt" -> FALSE

\* Price-List Parser: a pure function of the document; ROTA.PDF is
\* unreadable, and the price of D could not be determined
Parses(file) == file = "lista.pdf"

Parse(file) ==
    PreviewData(<< Product("B", "Tolva B", 1200, "USD"),
                   Product("D", "Sinfin D", NullPrice, "ARS") >>,
                << Condition("Contado", 12, 1) >>)

ParseErrorDetail == "No se pudo leer el PDF"
ConfirmErrorDetail == "Error interno"
FetchErrorMessage == "Failed to fetch"

\* a message between the wizard and the server
Message(id, kind, file, prods, conds, replace, detail, data, res) ==
    [id |-> id, kind |-> kind, file |-> file, products |-> prods,
     payment_conditions |-> conds, replace_existing |-> replace,
     detail |-> detail, data |-> data, result |-> res]

PreviewRequest(id, file) ==
    Message(id, "preview", file, <<>>, <<>>, FALSE, "", Null, Null)

ConfirmRequest(id, prods, conds, replace) ==
    Message(id, "confirm", "", prods, conds, replace, "", Null, Null)

PreviewOk(id, data) ==
    Message(id, "previewOk", "", <<>>, <<>>, FALSE, "", Some(data), Null)

ConfirmOk(id, res) ==
    Message(id, "confirmOk", "", <<>>, <<>>, FALSE, "", Null, Some(res))

Failed(id, kind, detail) ==
    Message(id, kind, "", <<>>, <<>>, FALSE, detail, Null, Null)

----------------------------------------------------------------------------
(* Import Reconciler and Catalog Store *)

\* the codes of the incoming set
IncomingCodes(prods) == {prods[i].code : i \in DOMAIN prods}

\* a product that fails when applied: a required field is missing
Invalid(p) == p.code = "" \/ p.name = ""

ErrorMessage(p) == p.code \o ": campo requerido faltante"

\* getMachineByCode: the row with that code (0 when there is none)
RowOfCode(cat, code) ==
    LET hits == {i \in DOMAIN cat : cat[i].code = code}
    IN  IF hits = {} THEN 0 ELSE CHOOSE i \in hits : \A j \in hits : i <= j

\* deactivateMachine on every active machine that is not in the incoming set
DeactivateMissingNone(cat, prods) == cat

DeactivateMissing(cat, prods) ==
    [i \in DOMAIN cat |->
        IF cat[i].active /\ cat[i].code \notin IncomingCodes(prods)
        THEN [cat[i] EXCEPT !.active = FALSE]
        ELSE cat[i]]

\* a match: price, name and currency are replaced
UpdatedRow(row, p) ==
    [row EXCEPT !.name = p.name, !.price = p.price,
                !.price_currency = p.price_currency]

\* no match: a new active machine
CreatedRow(p) == Machine(p.code, p.name, p.price, p.price_currency, TRUE)

\* one product applied to the accumulated outcome, all or nothing
ApplyProductAlwaysCreate(acc, p) ==
    IF Invalid(p)
    THEN [acc EXCEPT !.errors = Append(@, ErrorMessage(p))]
    ELSE [acc EXCEPT !.cat = Append(@, CreatedRow(p)),
                     !.imported = @ + 1]

ApplyProduct(acc, p) ==
    IF Invalid(p)
    THEN [acc EXCEPT !.errors = Append(@, ErrorMessage(p))]
    ELSE LET row == RowOfCode(acc.cat, p.code)
         IN  IF row # 0
             THEN [acc EXCEPT !.cat[row] = UpdatedRow(@, p),
                              !.updated = @ + 1]
             ELSE [acc EXCEPT !.cat = Append(@, CreatedRow(p)),
                              !.imported = @ + 1]

\* the products applied in input order
RECURSIVE ApplyAllAborting(_, _)
ApplyAllAborting(acc, prods) ==
    IF prods = <<>> THEN acc
    ELSE IF Invalid(Head(prods)) THEN ApplyProduct(acc, Head(prods))
    ELSE ApplyAllAborting(ApplyProduct(acc, Head(prods)), Tail(prods))

RECURSIVE ApplyAll(_, _)
ApplyAll(acc, prods) ==
    IF prods = <<>> THEN acc
    ELSE ApplyAll(ApplyProduct(acc, Head(prods)), Tail(prods))

\* confirm(products, payment_conditions, replace_existing)
ReconcileAlwaysReplace(cat, prods, replace) ==
    ApplyAll([cat |-> DeactivateMissing(cat, prods),
              imported |-> 0, updated |-> 0, errors |-> <<>>], prods)

Reconcile(cat, prods, replace) ==
    ApplyAll([cat |-> IF replace THEN DeactivateMissing(cat, prods) ELSE cat,
              imported |-> 0, updated |-> 0, errors |-> <<>>], prods)

\* what history keeps of one confirm call
Applied(req, before, after, res) ==
    [products |-> req.products, replace_existing |-> req.replace_existing,
     before |-> before, after |-> after, result |-> res]

\* the last two calls
Remember(h, entry) ==
    IF h = <<>> THEN <<entry>> ELSE <<h[Len(h)], entry>>

\* the Catalog Store before the first import: A, B and C are active
InitialCatalog ==
    << Machine("A", "Acoplado A", 800, "USD", TRUE),
       Machine("B", "Tolva B", 1000, "USD", TRUE),
       Machine("C", "Carro C", 500, "ARS", TRUE) >>

----------------------------------------------------------------------------
(* Price-list import: the wizard (PriceListImport) and the server *)

FormIdle ==
    /\ machines = <<>>
    /\ isLoadingMachines = TRUE
    /\ discountPercent = 0
    /\ lineItems = <<>>
    /\ now = 0
    /\ exchangeRate = 1000
    /\ rendered = TRUE
    /\ lineItemDetails = <<>>
    /\ grandSubtotal = 0
    /\ discountAmount = 0
    /\ grandTotal = 0
    /\ lastCall = Call("", "", "", 0)
    /\ sent = <<>>

\* the view with the drop zone: step === 'idle' || step === 'loading'
UploadView == step \in {"idle", "loading"}

\* the view of the result: step === 'done' && result
DoneView == step = "done" /\ result # Null

\* the preview view: every other case
PreviewView == ~UploadView /\ ~DoneView

\* products.filter(p => p._selected)
SelectedProductsAll(prods) == prods

SelectedProducts(prods) == SelectSeq(prods, LAMBDA p : p._selected)

selectedCount == Len(SelectedProducts(products))

\* selectedProducts.map(({ _selected, _expanded, ...p }) => p)
CleanProductsAsReviewed(prods) == prods

CleanProducts(prods) ==
    [i \in DOMAIN prods |->
        Product(prods[i].code, prods[i].name, prods[i].price,
                prods[i].price_currency)]

\* err.detail || fallback
DetailOrFallback(detail, fallback) == fallback

DetailOr(detail, fallback) == IF detail = "" THEN fallback ELSE detail

\* the products of the review with their edits and selection flags
Selection(prods) ==
    [i \in DOMAIN prods |->
        [code |-> prods[i].code, name |-> prods[i].name,
         price |-> prods[i].price,
         price_currency |-> prods[i].price_currency,
         _selected |-> prods[i]._selected]]

\* what issued keeps of a request: the review as it was when confirm was
\* pressed, whether reset ran while the request was outstanding, and whether
\* onImportComplete was called for it
Issued(prods, conds, replace) ==
    [products |-> prods, conditions |-> conds, replace_existing |-> replace,
     abandoned |-> FALSE, completed |-> FALSE]

\* what issued keeps of a request whose response has been handled
Handled(req, completed) ==
    [Issued(<<>>, <<>>, FALSE) EXCEPT !.completed = completed]

handleFileUpload(file) ==
    /\ UploadView
    /\ IF ~EndsWithPdf(file)
       THEN /\ error' = Some("El archivo debe ser un PDF")
            /\ UNCHANGED <<step, network, nextReq, issued>>
       ELSE /\ nextReq < MaxRequests
            /\ step' = "loading"
            /\ error' = Null
            /\ nextReq' = nextReq + 1
            /\ network' = network \cup {PreviewRequest(nextReq', file)}
            /\ issued' = Append(issued, Issued(<<>>, <<>>, FALSE))
    /\ UNCHANGED <<catalog, preview, products, conditions, replaceExisting,
                   result, edits, history>>
    /\ UNCHANGED <<formVars, panelVars>>

\* POST /admin/price-list/preview
ServePreview(m) ==
    /\ m \in network
    /\ m.kind = "preview"
    /\ network' = (network \ {m}) \cup
           {IF Parses(m.file)
            THEN PreviewOk(m.id, Parse(m.file))
            ELSE Failed(m.id, "previewError", ParseErrorDetail)}
    /\ UNCHANGED <<catalog, step, preview, products, conditions,
                   replaceExisting, result, error, nextReq, edits, history,
                   issued>>
    /\ UNCHANGED <<formVars, panelVars>>

\* handleFileUpload after the await, response.ok
handleFileUploadOk(m) ==
    /\ m \in network
    /\ m.kind = "previewOk"
    /\ network' = network \ {m}
    /\ LET data == m.data[1]
       IN  /\ preview' = Some(data)
           /\ products' =
                  [i \in DOMAIN data.products |->
                      Reviewed(data.products[i],
                               data.products[i].price # NullPrice, FALSE)]
           /\ conditions' = data.payment_conditions
    /\ step' = "preview"
    /\ issued' = [issued EXCEPT ![m.id] = Handled(@, FALSE)]
    /\ UNCHANGED <<catalog, replaceExisting, result, error, nextReq, edits,
                   history>>
    /\ UNCHANGED <<formVars, panelVars>>

\* handleFileUpload after the await, the catch branch
handleFileUploadError(m) ==
    /\ m \in network
    /\ m.kind = "previewError"
    /\ network' = network \ {m}
    /\ error' = Some(DetailOr(m.detail, "Error al procesar el PDF"))
    /\ step' = "idle"
    /\ issued' = [issued EXCEPT ![m.id] = Handled(@, FALSE)]
    /\ UNCHANGED <<catalog, preview, products, conditions, replaceExisting,
                   result, nextReq, edits, history>>
    /\ UNCHANGED <<formVars, panelVars>>

\* the confirm button: disabled={step === 'confirming' || selectedCount === 0}
handleConfirm ==
    /\ PreviewView
    /\ step # "confirming"
    /\ selectedCount # 0
    /\ nextReq < MaxRequests
    /\ step' = "confirming"
    /\ error' = Null
    /\ nextReq' = nextReq + 1
    /\ network' = network \cup
           {ConfirmRequest(nextReq', CleanProducts(SelectedProducts(products)),
                           conditions, replaceExisting)}
    /\ issued' = Append(issued, Issued(Selection(products), conditions,
                                       replaceExisting))
    /\ UNCHANGED <<catalog, preview, products, conditions, replaceExisting,
                   result, edits, history>>
    /\ UNCHANGED <<formVars, panelVars>>

\* POST /admin/price-list/confirm
ServeConfirm(m) ==
    /\ m \in network
    /\ m.kind = "confirm"
    /\ LET out == Reconcile(catalog, m.products, m.replace_existing)
           res == ConfirmResult(out.imported, out.updated, out.errors,
                                Len(m.payment_conditions))
       IN  /\ catalog' = out.cat
           /\ history' = Remember(history, Applied(m, catalog, out.cat, res))
           /\ network' = (network \ {m}) \cup {ConfirmOk(m.id, res)}
    /\ UNCHANGED <<step, preview, products, conditions, replaceExisting,
                   result, error, nextReq, edits, issued>>
    /\ UNCHANGED <<formVars, panelVars>>

\* the confirm call refused as a whole (session expired, server error)
ServeConfirmError(m) ==
    /\ m \in network
    /\ m.kind = "confirm"
    /\ network' = (network \ {m}) \cup
           {Failed(m.id, "confirmError", ConfirmErrorDetail)}
    /\ UNCHANGED <<catalog, step, preview, products, conditions,
                   replaceExisting, result, error, nextReq, edits, history,
                   issued>>
    /\ UNCHANGED <<formVars, panelVars>>

\* fetch rejects although the server has answered: the response is lost
ResponseLost(m) ==
    /\ m \in network
    /\ m.kind \in {"previewOk", "confirmOk"}
    /\ network' = (network \ {m}) \cup
           {Failed(m.id, IF m.kind = "previewOk" THEN "previewError"
                         ELSE "confirmError", FetchErrorMessage)}
    /\ UNCHANGED <<catalog, step, preview, products, conditions,
                   replaceExisting, result, error, nextReq, edits, history,
                   issued>>
    /\ UNCHANGED <<formVars, panelVars>>

\* handleConfirm after the await, response.ok; onImportComplete?.() is
\* recorded in issued
handleConfirmOk(m) ==
    /\ m \in network
    /\ m.kind = "confirmOk"
    /\ network' = network \ {m}
    /\ result' = m.result
    /\ step' = "done"
    /\ issued' = [issued EXCEPT ![m.id] = Handled(@, TRUE)]
    /\ UNCHANGED <<catalog, preview, products, conditions, replaceExisting,
                   error, nextReq, edits, history>>
    /\ UNCHANGED <<formVars, panelVars>>

\* handleConfirm after the await, the catch branch
handleConfirmError(m) ==
    /\ m \in network
    /\ m.kind = "confirmError"
    /\ network' = network \ {m}
    /\ error' = Some(DetailOr(m.detail, "Error al confirmar importación"))
    /\ step' = "preview"
    /\ issued' = [issued EXCEPT ![m.id] = Handled(@, FALSE)]
    /\ UNCHANGED <<catalog, preview, products, conditions, replaceExisting,
                   result, nextReq, edits, history>>
    /\ UNCHANGED <<formVars, panelVars>>

toggleProduct(idx) ==
    /\ PreviewView
    /\ edits < MaxEdits
    /\ edits' = edits + 1
    /\ idx \in DOMAIN products
    /\ products' = [products EXCEPT ![idx]._selected = ~@]
    /\ UNCHANGED <<catalog, step, preview, conditions, replaceExisting,
                   result, error, network, nextReq, history, issued>>
    /\ UNCHANGED <<formVars, panelVars>>

toggleExpand(idx) ==
    /\ PreviewView
    /\ edits < MaxEdits
    /\ edits' = edits + 1
    /\ idx \in DOMAIN products
    /\ products' = [products EXCEPT ![idx]._expanded = ~@]
    /\ UNCHANGED <<catalog, step, preview, conditions, replaceExisting,
                   result, error, network, nextReq, history, issued>>
    /\ UNCHANGED <<formVars, panelVars>>

\* the "Todos" and "Ninguno" buttons
selectAll(selected) ==
    /\ PreviewView
    /\ edits < MaxEdits
    /\ edits' = edits + 1
    /\ products' = [i \in DOMAIN products |->
                       [products[i] EXCEPT !._selected = selected]]
    /\ UNCHANGED <<catalog, step, preview, conditions, replaceExisting,
                   result, error, network, nextReq, history, issued>>
    /\ UNCHANGED <<formVars, panelVars>>

\* the edits the review offers: the name always, the price while it is not
\* null, the code while the product is expanded
NameTexts == {""}
PriceTexts == {"0"}
CodeTexts == {"b"}

\* parseFloat(e.target.value) || null
PriceOrNull(text) == OrNumber(parseFloat(text), NullPrice)

updateProduct(idx, field, value) ==
    /\ PreviewView
    /\ idx \in DOMAIN products
    /\ edits < MaxEdits
    /\ edits' = edits + 1
    /\ CASE field = "name" ->
                products' = [products EXCEPT ![idx].name = value]
         [] field = "price" ->
                /\ products[idx].price # NullPrice
                /\ products' = [products EXCEPT ![idx].price = PriceOrNull(value)]
         [] field = "code" ->
                /\ products[idx]._expanded
                /\ products' = [products EXCEPT ![idx].code = value]
    /\ UNCHANGED <<catalog, step, preview, conditions, replaceExisting,
                   result, error, network, nextReq, history, issued>>
    /\ UNCHANGED <<formVars, panelVars>>

\* the checkbox "replace"
setReplaceExisting(checked) ==
    /\ PreviewView
    /\ edits < MaxEdits
    /\ edits' = edits + 1
    /\ replaceExisting' = checked
    /\ UNCHANGED <<catalog, step, preview, products, conditions, result,
                   error, network, nextReq, history, issued>>
    /\ UNCHANGED <<formVars, panelVars>>

reset ==
    /\ PreviewView \/ DoneView
    /\ step' = "idle"
    /\ preview' = Null
    /\ products' = <<>>
    /\ conditions' = <<>>
    /\ result' = Null
    /\ error' = Null
    /\ issued' = [id \in DOMAIN issued |->
                      IF \E m \in network : m.id = id
                      THEN [issued[id] EXCEPT !.abandoned = TRUE]
                      ELSE issued[id]]
    /\ UNCHANGED <<catalog, replaceExisting, network, nextReq, edits, history>>
    /\ UNCHANGED <<formVars, panelVars>>

ImportInit ==
    /\ FormIdle
    /\ catalog = InitialCatalog
    /\ WizardInit
    /\ PanelIdle

ImportNext ==
    \/ \E file \in Files : handleFileUpload(file)
    \/ \E m \in network : ServePreview(m)
    \/ \E m \in network : handleFileUploadOk(m)
    \/ \E m \in network : handleFileUploadError(m)
    \/ handleConfirm
    \/ \E m \in network : ServeConfirm(m)
    \/ \E m \in network : ServeConfirmError(m)
    \/ \E m \in network : ResponseLost(m)
    \/ \E m \in network : handleConfirmOk(m)
    \/ \E m \in network : handleConfirmError(m)
    \/ \E idx \in DOMAIN products : toggleProduct(idx)
    \/ \E idx \in DOMAIN products : toggleExpand(idx)
    \/ \E selected \in BOOLEAN : selectAll(selected)
    \/ \E idx \in DOMAIN products, value \in NameTexts :
           updateProduct(idx, "name", value)
    \/ \E idx \in DOMAIN products, value \in PriceTexts :
           updateProduct(idx, "price", value)
    \/ \E idx \in DOMAIN products, value \in CodeTexts :
           updateProduct(idx, "code", value)
    \/ \E checked \in BOOLEAN : setReplaceExisting(checked)
    \/ reset

ImportSpec == ImportInit /\ [][ImportNext]_vars

----------------------------------------------------------------------------
(* CatalogSpec: the Catalog Store under the admin panel's machine          *)
(* handlers (AdminPanel, MachineForm) and under confirm calls              *)

MaxOps == 2         \* admin operations and confirm calls in one run

\* a Machine of the admin list: the row of the Catalog Store with its id
AdminRow(id, m) ==
    [id |-> id, code |-> m.code, name |-> m.name, price |-> m.price,
     price_currency |-> m.price_currency, active |-> m.active]

\* GET /admin/machines: every machine, active or not
AdminRows(cat) == [i \in DOMAIN cat |-> AdminRow(i, cat[i])]

\* what the machine form holds when it is saved
FormData(id, code, name, price, currency, active) ==
    AdminRow(id, Machine(code, name, price, currency, active))

\* the new machines the admin enters: one with a new code, one with the
\* code of an existing machine
NewMachines ==
    { FormData(0, "E", "Embolsadora E", 700, "USD", TRUE),
      FormData(0, "B", "Tolva B bis", 700, "USD", TRUE) }

\* the changes the admin makes to a machine of the list
EditedMachines(row) ==
    { [row EXCEPT !.price = 900],
      [row EXCEPT !.code = "A"],
      [row EXCEPT !.active = ~@] }

\* code is unique among the machines
CodeTaken(cat, code, except) ==
    \E i \in DOMAIN cat : i # except /\ cat[i].code = code

\* Catalog Store: a machine created by admin CRUD
createMachine(cat, data) ==
    Append(cat, Machine(data.code, data.name, data.price,
                        data.price_currency, data.active))

\* Catalog Store: a machine updated by admin CRUD
updateMachine(cat, id, data) ==
    [cat EXCEPT ![id] = Machine(data.code, data.name, data.price,
                                data.price_currency, data.active)]

\* Catalog Store: a machine is never hard-deleted, it is deactivated
deactivateMachine(cat, id) == [cat EXCEPT ![id].active = FALSE]

\* setMachines(prev => prev.map(m => m.id === machineId
\*                                     ? { ...m, active: false } : m))
DeactivatedInListDropped(list, machineId) ==
    SelectSeq(list, LAMBDA m : m.id # machineId)

DeactivatedInList(list, machineId) ==
    [i \in DOMAIN list |->
        IF list[i].id = machineId THEN [list[i] EXCEPT !.active = FALSE]
        ELSE list[i]]

\* what the other panels and the wizard hold while the admin list is used
CatalogFrame ==
    /\ UNCHANGED <<machines, isLoadingMachines, discountPercent, lineItems,
                   now, exchangeRate, rendered, lineItemDetails,
                   grandSubtotal, discountAmount, grandTotal>>
    /\ UNCHANGED <<step, preview, products, conditions, replaceExisting,
                   result, error, network, nextReq, edits, issued>>
    /\ UNCHANGED calls
    /\ UNCHANGED <<quotationVars, settingsVars>>

\* loadData, the machines half: setMachines(machinesData)
loadData(ok) ==
    /\ UNCHANGED sent
    /\ lastCall' = Call("loadData", "", "", 0)
    /\ IF ok THEN adminList' = AdminRows(catalog)
       ELSE UNCHANGED adminList
    /\ UNCHANGED <<catalog, history, ops>>
    /\ CatalogFrame

\* handleCreateMachine: setMachines(prev => [machine, ...prev])
handleCreateMachine(machine) ==
    adminList' = <<machine>> \o adminList

\* handleUpdateMachine: prev.map(m => m.id === updatedMachine.id ? ... : m)
handleUpdateMachine(updatedMachine) ==
    adminList' = [i \in DOMAIN adminList |->
                     IF adminList[i].id = updatedMachine.id
                     THEN updatedMachine ELSE adminList[i]]

\* MachineForm.handleSubmit with onSave: POST for a new machine, PUT for
\* an edited one; the server refuses a code that another machine has
handleSubmitMachine(isEditing, formData, ok) ==
    /\ ops < MaxOps
    /\ ops' = ops + 1
    /\ UNCHANGED sent
    /\ lastCall' = Call(IF isEditing THEN "handleUpdateMachine"
                        ELSE "handleCreateMachine", "", "", formData.id)
    /\ IF ~ok \/ CodeTaken(catalog, formData.code,
                           IF isEditing THEN formData.id ELSE 0)
       THEN UNCHANGED <<catalog, adminList>>
       ELSE IF isEditing
            THEN /\ catalog' = updateMachine(catalog, formData.id, formData)
                 /\ handleUpdateMachine(formData)
            ELSE /\ catalog' = createMachine(catalog, formData)
                 /\ handleCreateMachine(
                        AdminRow(Len(catalog'), catalog'[Len(catalog')]))
    /\ UNCHANGED history
    /\ CatalogFrame

\* handleDeleteMachine: DELETE /admin/machines/{id}
handleDeleteMachine(machineId, ok) ==
    /\ ops < MaxOps
    /\ ops' = ops + 1
    /\ UNCHANGED sent
    /\ lastCall' = Call("handleDeleteMachine", "", "", machineId)
    /\ IF ok
       THEN /\ catalog' = deactivateMachine(catalog, machineId)
            /\ adminList' = DeactivatedInList(adminList, machineId)
       ELSE UNCHANGED <<catalog, adminList>>
    /\ UNCHANGED history
    /\ CatalogFrame

\* the products of the confirm calls: B with a new price, C with its name
\* missing, D new
ProductPool ==
    { Product("B", "Tolva B", 1200, "USD"),
      Product("C", "", 700, "ARS"),
      Product("D", "Sinfin D", 900, "ARS") }

Batches ==
    { q \in SeqsUpTo(ProductPool, Cardinality(ProductPool)) :
        q # <<>> /\ \A i, j \in DOMAIN q : i # j => q[i] # q[j] }

\* confirm(products, payment_conditions, replace_existing), called by any
\* client of the server
confirm(prods, conds, replace) ==
    /\ ops < MaxOps
    /\ ops' = ops + 1
    /\ UNCHANGED sent
    /\ lastCall' = Call("confirm", "", "", 0)
    /\ LET out == Reconcile(catalog, prods, replace)
           res == ConfirmResult(out.imported, out.updated, out.errors,
                                Len(conds))
       IN  /\ catalog' = out.cat
           /\ history' = Remember(history,
                  Applied(ConfirmRequest(0, prods, conds, replace),
                          catalog, out.cat, res))
    /\ UNCHANGED adminList
    /\ CatalogFrame

CatalogInit ==
    /\ FormIdle
    /\ catalog = InitialCatalog
    /\ WizardInit
    /\ PanelIdle

CatalogNext ==
    \/ \E ok \in BOOLEAN : loadData(ok)
    \/ \E formData \in NewMachines, ok \in BOOLEAN :
           handleSubmitMachine(FALSE, formData, ok)
    \/ \E i \in DOMAIN adminList, ok \in BOOLEAN :
           \E formData \in EditedMachines(adminList[i]) :
               handleSubmitMachine(TRUE, formData, ok)
    \/ \E i \in DOMAIN adminList, ok \in BOOLEAN :
           handleDeleteMachine(adminList[i].id, ok)
    \/ \E prods \in Batches, replace \in BOOLEAN :
           confirm(prods, <<>>, replace)

CatalogSpec == CatalogInit /\ [][CatalogNext]_vars

----------------------------------------------------------------------------
(* RaceSpec: confirm calls that run concurrently on the server.  Each      *)
(* product is applied in a transaction of its own: the machine is looked   *)
(* up by code, then written; a creation that finds the code taken by the   *)
(* time it writes is retried as an update                                  *)

MaxCalls == 2       \* confirm calls in progress at once

\* a confirm call in progress: pos is the product being applied, found the
\* row its lookup returned, retried the creations retried as updates
ConfirmCall(prods, replace, phase, pos, found, imported, updated, errors, retried) ==
    [products |-> prods, replace_existing |-> replace, phase |-> phase,
     pos |-> pos, found |-> found, imported |-> imported,
     updated |-> updated, errors |-> errors, retried |-> retried]

\* two price lists that overlap on B (existing) and D (new)
RaceBatches ==
    { << Product("B", "Tolva B 2024", 1200, "USD"),
         Product("D", "Sinfin D 2024", 900, "ARS") >>,
      << Product("D", "Sinfin D 2025", 950, "USD"),
         Product("", "Sin codigo", 100, "USD"),
         Product("B", "Tolva B 2025", 1300, "ARS") >> }

\* upsertMachine in the transaction of one product: found is the row the
\* lookup returned, 0 when there was none
UpsertRowNoRetry(cat, found, p) ==
    IF found # 0
    THEN [cat |-> [cat EXCEPT ![found] = UpdatedRow(@, p)],
          created |-> FALSE, retried |-> FALSE]
    ELSE [cat |-> Append(cat, CreatedRow(p)),
          created |-> TRUE, retried |-> FALSE]

UpsertRow(cat, found, p) ==
    LET row == IF found # 0 THEN found ELSE RowOfCode(cat, p.code)
    IN  IF row # 0
        THEN [cat |-> [cat EXCEPT ![row] = UpdatedRow(@, p)],
              created |-> FALSE, retried |-> found = 0]
        ELSE [cat |-> Append(cat, CreatedRow(p)),
              created |-> TRUE, retried |-> FALSE]

\* the phase after product pos of a call with n products
NextPhase(pos, n) == IF pos >= n THEN "done" ELSE "lookup"

RaceFrame ==
    /\ UNCHANGED <<machines, isLoadingMachines, discountPercent, lineItems,
                   now, exchangeRate, rendered, lineItemDetails,
                   grandSubtotal, discountAmount, grandTotal, lastCall,
                   sent>>
    /\ UNCHANGED <<step, preview, products, conditions, replaceExisting,
                   result, error, network, nextReq, edits, history, issued>>
    /\ UNCHANGED <<adminList, ops>>
    /\ UNCHANGED <<quotationVars, settingsVars>>

\* POST /admin/price-list/confirm received
receiveConfirm(prods, replace) ==
    /\ Len(calls) < MaxCalls
    /\ calls' = Append(calls,
                       ConfirmCall(prods, replace, "begin", 1, 0, 0, 0, <<>>,
                                   0))
    /\ UNCHANGED catalog
    /\ RaceFrame

\* replace_existing: the machines missing from the incoming set are
\* deactivated before any product is applied
beginConfirm(c) ==
    /\ calls[c].phase = "begin"
    /\ catalog' = IF calls[c].replace_existing
                  THEN DeactivateMissing(catalog, calls[c].products)
                  ELSE catalog
    /\ calls' = [calls EXCEPT ![c].phase =
                            NextPhase(0, Len(calls[c].products))]
    /\ RaceFrame

\* the transaction of product pos begins: validation and getMachineByCode
lookupProduct(c) ==
    /\ calls[c].phase = "lookup"
    /\ LET p == calls[c].products[calls[c].pos]
       IN  calls' =
               IF Invalid(p)
               THEN [calls EXCEPT
                        ![c].errors = Append(@, ErrorMessage(p)),
                        ![c].phase = NextPhase(calls[c].pos,
                                               Len(calls[c].products)),
                        ![c].pos = @ + 1]
               ELSE [calls EXCEPT
                        ![c].found = RowOfCode(catalog, p.code),
                        ![c].phase = "write"]
    /\ UNCHANGED catalog
    /\ RaceFrame

\* the transaction of product pos commits
writeProduct(c) ==
    /\ calls[c].phase = "write"
    /\ LET p == calls[c].products[calls[c].pos]
           out == UpsertRow(catalog, calls[c].found, p)
       IN  /\ catalog' = out.cat
           /\ calls' =
                  [calls EXCEPT
                      ![c].imported = IF out.created THEN @ + 1 ELSE @,
                      ![c].updated = IF out.created THEN @ ELSE @ + 1,
                      ![c].retried = IF out.retried THEN @ + 1 ELSE @,
                      ![c].found = 0,
                      ![c].phase = NextPhase(calls[c].pos,
                                             Len(calls[c].products)),
                      ![c].pos = @ + 1]
    /\ RaceFrame

RaceInit ==
    /\ FormIdle
    /\ catalog = InitialCatalog
    /\ WizardInit
    /\ PanelIdle

RaceNext ==
    \/ \E prods \in RaceBatches, replace \in BOOLEAN :
           receiveConfirm(prods, replace)
    \/ \E c \in DOMAIN calls : beginConfirm(c)
    \/ \E c \in DOMAIN calls : lookupProduct(c)
    \/ \E c \in DOMAIN calls : writeProduct(c)

RaceSpec == RaceInit /\ [][RaceNext]_vars

----------------------------------------------------------------------------
(* QuotationSpec: the quotation history (QuotationsPanel) and the          *)
(* Quotation Store behind it.  The search box is left empty                *)

MaxQuotations == 1  \* quotations created in one run
MaxQRequests == 3   \* requests the operator starts in one run

PAGE_SIZE == 20

\* AdminQuotation as create leaves it
Quotation(id, inputs, created) ==
    [id |-> id,
     machine_code |-> inputs.machine_code,
     client_cuit |-> inputs.client_cuit,
     client_name |-> inputs.client_name,
     client_discount_percent |-> inputs.client_discount_percent,
     additional_discount_percent |-> inputs.additional_discount_percent,
     total_discount_percent |-> inputs.total_discount_percent,
     original_price |-> inputs.original_price,
     final_price |-> inputs.final_price,
     options_data |-> inputs.options_data,
     is_deleted |-> FALSE, deleted_at |-> <<>>, deleted_by |-> <<>>,
     created_at |-> created]

\* the quotation inputs with their pricing result, in the order the
\* quotations are generated
QuotationInputs ==
    << [machine_code |-> "B", client_cuit |-> "20-1", client_name |-> "Ana",
       client_discount_percent |-> 10, additional_discount_percent |-> 0,
       total_discount_percent |-> 10, original_price |-> 1000,
       final_price |-> 900, options_data |-> ""],
      [machine_code |-> "C", client_cuit |-> "30-2", client_name |-> "Luis",
       client_discount_percent |-> 0, additional_discount_percent |-> 5,
       total_discount_percent |-> 5, original_price |-> 500,
       final_price |-> 475, options_data |-> "[]"] >>

\* create(quotationInputs, pricingResult): assigns id and created_at
create(qs, inputs, t) == Append(qs, Quotation(Len(qs) + 1, inputs, t))

\* softDelete(id, actor): deleting a deleted record is a no-op success
softDeleteOnce(qs, id, t, actor) ==
    IF id \notin DOMAIN qs \/ qs[id].is_deleted
    THEN [rows |-> qs, ok |-> FALSE]
    ELSE [rows |-> [qs EXCEPT ![id].is_deleted = TRUE,
                              ![id].deleted_at = <<t>>,
                              ![id].deleted_by = <<actor>>],
          ok |-> TRUE]

softDelete(qs, id, t, actor) ==
    IF id \notin DOMAIN qs THEN [rows |-> qs, ok |-> FALSE]
    ELSE IF qs[id].is_deleted THEN [rows |-> qs, ok |-> TRUE]
    ELSE [rows |-> [qs EXCEPT ![id].is_deleted = TRUE,
                              ![id].deleted_at = <<t>>,
                              ![id].deleted_by = <<actor>>],
          ok |-> TRUE]

\* restore(id): clears the deletion fields; NotFound for an unknown id
restoreAuditOnly(qs, id) ==
    IF id \notin DOMAIN qs THEN [rows |-> qs, ok |-> FALSE]
    ELSE [rows |-> [qs EXCEPT ![id].deleted_at = <<>>,
                              ![id].deleted_by = <<>>],
          ok |-> TRUE]

restore(qs, id) ==
    IF id \notin DOMAIN qs THEN [rows |-> qs, ok |-> FALSE]
    ELSE [rows |-> [qs EXCEPT ![id].is_deleted = FALSE,
                              ![id].deleted_at = <<>>,
                              ![id].deleted_by = <<>>],
          ok |-> TRUE]

\* sort=created_at_desc: the rows are stored in creation order
MostRecentFirst(rows) == [i \in DOMAIN rows |-> rows[Len(rows) + 1 - i]]

\* list(filter{includeDeleted, limit, offset}) -> {items, total}
list(qs, include, limit, off) ==
    LET kept == SelectSeq(qs, LAMBDA q : include \/ ~q.is_deleted)
        sorted == MostRecentFirst(kept)
        last == IF off + limit < Len(sorted) THEN off + limit
                ELSE Len(sorted)
    IN  [items |-> SubSeq(sorted, off + 1, last), total |-> Len(sorted)]

\* what trail keeps of a quotation
Trail(q, log) == [created |-> q, log |-> log]

\* a message between the panel and the server; include and off are the
\* includeDeleted and offset of the render the request was started from
QMessage(kind, target, include, off, rows, tot) ==
    [kind |-> kind, target |-> target, include |-> include,
     off |-> off, items |-> rows, total |-> tot]

ListRequest(include, off) == QMessage("list", 0, include, off, <<>>, 0)

\* { type, text }
Notice(type, text) == <<[type |-> type, text |-> text]>>

\* what the form, the wizard and the admin list hold meanwhile
QuotationFrame ==
    /\ UNCHANGED <<machines, isLoadingMachines, discountPercent, lineItems,
                   exchangeRate, rendered, lineItemDetails, grandSubtotal,
                   discountAmount, grandTotal, lastCall, sent>>
    /\ UNCHANGED importVars
    /\ UNCHANGED <<adminVars, settingsVars>>

\* fetchQuotations up to its await, called from a render with the given
\* includeDeleted and offset; net is what is in flight already
fetchQuotations(net, include, off) ==
    /\ loading' = TRUE
    /\ listError' = <<>>
    /\ qnet' = net (+) SetToBag({ListRequest(include, off)})

\* the first render: the effect on [offset, includeDeleted] fetches and the
\* effect on [search] starts its timer
mount ==
    /\ searchTimer = "unmounted"
    /\ searchTimer' = "armed"
    /\ fetchQuotations(qnet, includeDeleted, offset)
    /\ UNCHANGED <<quotations, trail, returned, shownItems, total, offset,
                   includeDeleted, message, qOps, now>>
    /\ QuotationFrame

\* the timer of the first render: setOffset(0); fetchQuotations()
searchTimerFires ==
    /\ searchTimer = "armed"
    /\ searchTimer' = "fired"
    /\ offset' = 0
    /\ fetchQuotations(qnet, FALSE, 0)
    /\ UNCHANGED <<quotations, trail, returned, shownItems, total, includeDeleted,
                   message, qOps, now>>
    /\ QuotationFrame

\* the checkbox "Mostrar eliminadas": setIncludeDeleted, setOffset(0), and
\* the effect on [offset, includeDeleted]
setIncludeDeleted(checked) ==
    /\ searchTimer # "unmounted"
    /\ checked # includeDeleted
    /\ qOps < MaxQRequests
    /\ qOps' = qOps + 1
    /\ includeDeleted' = checked
    /\ offset' = 0
    /\ fetchQuotations(qnet, checked, 0)
    /\ UNCHANGED <<quotations, trail, returned, shownItems, total, message,
                   searchTimer, now>>
    /\ QuotationFrame

\* fetchQuotations after the await, response.ok
fetchQuotationsOk(m) ==
    /\ BagIn(m, qnet)
    /\ m.kind = "listOk"
    /\ qnet' = qnet (-) SetToBag({m})
    /\ shownItems' = m.items
    /\ total' = m.total
    /\ loading' = FALSE
    /\ UNCHANGED <<quotations, trail, returned, offset, includeDeleted,
                   listError, message, searchTimer, qOps, now>>
    /\ QuotationFrame

\* fetchQuotations after the await, the catch branch
fetchQuotationsError(m) ==
    /\ BagIn(m, qnet)
    /\ m.kind = "listError"
    /\ qnet' = qnet (-) SetToBag({m})
    /\ listError' = <<"No se pudo cargar el historial de cotizaciones.">>
    /\ shownItems' = <<>>
    /\ total' = 0
    /\ loading' = FALSE
    /\ UNCHANGED <<quotations, trail, returned, offset, includeDeleted,
                   message, searchTimer, qOps, now>>
    /\ QuotationFrame

\* the row of quotation id is on screen with the button for deleted rows
\* (restore) or for the others (delete)
RowShown(id, deleted) ==
    /\ ~loading
    /\ \E i \in DOMAIN shownItems :
           shownItems[i].id = id /\ shownItems[i].is_deleted = deleted

\* deleteQuotation / restoreQuotation up to the await
startRowRequest(kind, id) ==
    /\ qOps < MaxQRequests
    /\ qOps' = qOps + 1
    /\ qnet' = qnet (+) SetToBag(
           {QMessage(kind, id, includeDeleted, offset, <<>>, 0)})
    /\ UNCHANGED <<quotations, trail, returned, shownItems, total, offset,
                   includeDeleted, loading, listError, message, searchTimer,
                   now>>
    /\ QuotationFrame

deleteQuotation(id) ==
    /\ RowShown(id, FALSE)
    /\ startRowRequest("delete", id)

restoreQuotation(id) ==
    /\ RowShown(id, TRUE)
    /\ startRowRequest("restore", id)

\* deleteQuotation / restoreQuotation after the await, response.ok:
\* notify('success', ...) and fetchQuotations() of the render of the click
rowRequestOk(m, kind, text) ==
    /\ BagIn(m, qnet)
    /\ m.kind = kind
    /\ message' = Notice("success", text)
    /\ fetchQuotations(qnet (-) SetToBag({m}), m.include, m.off)
    /\ UNCHANGED <<quotations, trail, returned, shownItems, total, offset,
                   includeDeleted, searchTimer, qOps, now>>
    /\ QuotationFrame

\* the catch branch: notify('error', ...)
rowRequestError(m, kind, text) ==
    /\ BagIn(m, qnet)
    /\ m.kind = kind
    /\ qnet' = qnet (-) SetToBag({m})
    /\ message' = Notice("error", text)
    /\ UNCHANGED <<quotations, trail, returned, shownItems, total, offset,
                   includeDeleted, loading, listError, searchTimer, qOps, now>>
    /\ QuotationFrame

deleteQuotationOk(m) == rowRequestOk(m, "deleteOk", "Cotizacion ocultada.")

deleteQuotationError(m) ==
    rowRequestError(m, "deleteError", "No se pudo ocultar la cotizacion.")

restoreQuotationOk(m) ==
    rowRequestOk(m, "restoreOk", "Cotizacion restaurada.")

restoreQuotationError(m) ==
    rowRequestError(m, "restoreError", "No se pudo restaurar la cotizacion.")

\* notify: setTimeout(() => setMessage(null), 3000)
clearMessage ==
    /\ message # <<>>
    /\ message' = <<>>
    /\ UNCHANGED <<quotations, trail, returned, shownItems, total, offset,
                   includeDeleted, loading, listError, searchTimer, qnet, qOps, now>>
    /\ QuotationFrame

\* what the panel holds while the server works
PanelState ==
    UNCHANGED <<shownItems, total, offset, includeDeleted, loading,
                listError, message, searchTimer, qOps>>

\* the response to request m
Reply(m, kind, rows, tot) ==
    QMessage(kind, m.target, m.include, m.off, rows, tot)

\* the page returned for include and off replaces the one returned before
Returned(ret, include, off, page) ==
    [key \in DOMAIN ret \cup {<<include, off>>} |->
        IF key = <<include, off>> THEN page ELSE ret[key]]

\* GET /admin/quotations answers request m with page
ListServed(m, page) ==
    /\ BagIn(m, qnet)
    /\ m.kind = "list"
    /\ page = list(quotations, m.include, PAGE_SIZE, m.off)
    /\ qnet' = (qnet (-) SetToBag({m})) (+)
           SetToBag({Reply(m, "listOk", page.items, page.total)})
    /\ UNCHANGED <<quotations, trail, now>>
    /\ PanelState
    /\ QuotationFrame

\* GET /admin/quotations
ServeList(m) ==
    /\ ListServed(m, list(quotations, m.include, PAGE_SIZE, m.off))
    /\ UNCHANGED returned

\* GET /admin/quotations, the page returned being kept in returned
ServeListKept(m) ==
    LET page == list(quotations, m.include, PAGE_SIZE, m.off)
    IN  /\ ListServed(m, page)
        /\ returned' = Returned(returned, m.include, m.off, page)

\* the operation asked of the store for quotation id, and whether it
\* succeeded, is added to the trail of the quotation
Logged(tr, id, op, ok) ==
    IF id \in DOMAIN tr
    THEN [tr EXCEPT ![id].log = Append(@, [op |-> op, ok |-> ok])]
    ELSE tr

\* DELETE /admin/quotations/{id}
ServeDelete(m) ==
    /\ BagIn(m, qnet)
    /\ m.kind = "delete"
    /\ LET out == softDelete(quotations, m.target, now, "admin")
       IN  /\ quotations' = out.rows
           /\ trail' = Logged(trail, m.target, "softDelete", out.ok)
           /\ qnet' = (qnet (-) SetToBag({m})) (+) SetToBag(
                  {Reply(m, IF out.ok THEN "deleteOk" ELSE "deleteError",
                         <<>>, 0)})
    /\ UNCHANGED <<returned, now>>
    /\ PanelState
    /\ QuotationFrame

\* POST /admin/quotations/{id}/restore
ServeRestore(m) ==
    /\ BagIn(m, qnet)
    /\ m.kind = "restore"
    /\ LET out == restore(quotations, m.target)
       IN  /\ quotations' = out.rows
           /\ trail' = Logged(trail, m.target, "restore", out.ok)
           /\ qnet' = (qnet (-) SetToBag({m})) (+) SetToBag(
                  {Reply(m, IF out.ok THEN "restoreOk" ELSE "restoreError",
                         <<>>, 0)})
    /\ UNCHANGED <<returned, now>>
    /\ PanelState
    /\ QuotationFrame

\* the request fails as a whole (session expired, no connection)
ServeRefused(m) ==
    /\ BagIn(m, qnet)
    /\ m.kind \in {"list", "delete", "restore"}
    /\ qnet' = (qnet (-) SetToBag({m})) (+)
           SetToBag({Reply(m, m.kind \o "Error", <<>>, 0)})
    /\ UNCHANGED <<quotations, trail, returned, now>>
    /\ PanelState
    /\ QuotationFrame

\* a quotation is generated: create(quotationInputs, pricingResult)
createQuotation ==
    /\ Len(quotations) < MaxQuotations
    /\ quotations' = create(quotations,
           QuotationInputs[(Len(quotations) % Len(QuotationInputs)) + 1], now)
    /\ trail' = Append(trail, Trail(quotations'[Len(quotations')], <<>>))
    /\ UNCHANGED <<qnet, returned, now>>
    /\ PanelState
    /\ QuotationFrame

QuotationInit ==
    /\ FormIdle
    /\ ImportIdle
    /\ PanelIdle

QuotationNext ==
    \/ mount
    \/ searchTimerFires
    \/ \E checked \in BOOLEAN : setIncludeDeleted(checked)
    \/ \E m \in BagToSet(qnet) : fetchQuotationsOk(m)
    \/ \E m \in BagToSet(qnet) : fetchQuotationsError(m)
    \/ \E i \in DOMAIN shownItems : deleteQuotation(shownItems[i].id)
    \/ \E i \in DOMAIN shownItems : restoreQuotation(shownItems[i].id)
    \/ \E m \in BagToSet(qnet) : deleteQuotationOk(m)
    \/ \E m \in BagToSet(qnet) : deleteQuotationError(m)
    \/ \E m \in BagToSet(qnet) : restoreQuotationOk(m)
    \/ \E m \in BagToSet(qnet) : restoreQuotationError(m)
    \/ clearMessage
    \/ \E m \in BagToSet(qnet) : ServeList(m)
    \/ \E m \in BagToSet(qnet) : ServeDelete(m)
    \/ \E m \in BagToSet(qnet) : ServeRestore(m)
    \/ \E m \in BagToSet(qnet) : ServeRefused(m)
    \/ createQuotation

QuotationSpec == QuotationInit /\ [][QuotationNext]_vars

-----------------------------------------------------------------------------
(* PageSpec: QuotationsPanel over a store of more than one page.  With at
   most MaxQuotations quotations the buttons "Anterior" and "Siguiente" stay
   disabled, so the store starts with PAGE_SIZE + 1 quotations generated
   earlier.  The pages the server returns are kept in returned. *)

\* Math.max(1, Math.ceil(total / PAGE_SIZE))
totalPages ==
    LET pages == (total + PAGE_SIZE - 1) \div PAGE_SIZE
    IN  IF pages > 1 THEN pages ELSE 1

\* Math.floor(offset / PAGE_SIZE) + 1
currentPage == (offset \div PAGE_SIZE) + 1

\* "Anterior": setOffset(prev => Math.max(0, prev - PAGE_SIZE)), and the
\* effect on [offset, includeDeleted]
previousPage ==
    /\ searchTimer # "unmounted"
    /\ offset # 0
    /\ qOps < MaxQRequests
    /\ qOps' = qOps + 1
    /\ offset' = IF offset - PAGE_SIZE > 0 THEN offset - PAGE_SIZE ELSE 0
    /\ fetchQuotations(qnet, includeDeleted, offset')
    /\ UNCHANGED <<quotations, trail, returned, shownItems, total, includeDeleted,
                   message, searchTimer, now>>
    /\ QuotationFrame

\* "Siguiente": setOffset(prev => prev + PAGE_SIZE < total ?
\* prev + PAGE_SIZE : prev), and the effect on [offset, includeDeleted]
nextPage ==
    /\ searchTimer # "unmounted"
    /\ ~(offset + PAGE_SIZE >= total)
    /\ qOps < MaxQRequests
    /\ qOps' = qOps + 1
    /\ offset' = IF offset + PAGE_SIZE < total THEN offset + PAGE_SIZE
                 ELSE offset
    /\ fetchQuotations(qnet, includeDeleted, offset')
    /\ UNCHANGED <<quotations, trail, returned, shownItems, total, includeDeleted,
                   message, searchTimer, now>>
    /\ QuotationFrame

\* the quotations generated before the panel is opened
PageStore ==
    [i \in 1..(PAGE_SIZE + 1) |->
        Quotation(i, QuotationInputs[((i - 1) % Len(QuotationInputs)) + 1], 0)]

\* the rows whose button is clicked: the first and the last of the page
ClickedRows == {i \in DOMAIN shownItems : i = 1 \/ i = Len(shownItems)}

PageInit ==
    /\ FormIdle
    /\ ImportIdle
    /\ adminList = <<>>
    /\ calls = <<>>
    /\ ops = 0
    /\ SettingsIdle
    /\ quotations = PageStore
    /\ trail = [i \in DOMAIN PageStore |-> Trail(PageStore[i], <<>>)]
    /\ PanelUnmounted

PageNext ==
    \/ mount
    \/ searchTimerFires
    \/ previousPage
    \/ nextPage
    \/ \E checked \in BOOLEAN : setIncludeDeleted(checked)
    \/ \E m \in BagToSet(qnet) : fetchQuotationsOk(m)
    \/ \E m \in BagToSet(qnet) : fetchQuotationsError(m)
    \/ \E i \in ClickedRows : deleteQuotation(shownItems[i].id)
    \/ \E i \in ClickedRows : restoreQuotation(shownItems[i].id)
    \/ \E m \in BagToSet(qnet) : deleteQuotationOk(m)
    \/ \E m \in BagToSet(qnet) : deleteQuotationError(m)
    \/ \E m \in BagToSet(qnet) : restoreQuotationOk(m)
    \/ \E m \in BagToSet(qnet) : restoreQuotationError(m)
    \/ clearMessage
    \/ \E m \in BagToSet(qnet) : ServeListKept(m)
    \/ \E m \in BagToSet(qnet) : ServeDelete(m)
    \/ \E m \in BagToSet(qnet) : ServeRestore(m)
    \/ \E m \in BagToSet(qnet) : ServeRefused(m)

PageSpec == PageInit /\ [][PageNext]_vars

----------------------------------------------------------------------------
(* SettingsSpec: the payment conditions of SettingsPanel and the server    *)
(* that stores them                                                        *)

MaxSettingsOps == 4 \* operations of the operator in one run

\* the texts typed into the name and description inputs
ConditionNames == {"", "  ", "Contado", " Cheques "}
ConditionDescriptions == {"", "5 cheques a 30 dias"}

\* String.prototype.trim on the texts above
trim(s) ==
    CASE s = "  " -> ""
      [] s = " Cheques " -> "Cheques"
      [] OTHER -> s

\* the body of POST /admin/payment-conditions
ConditionBody(cond, shown) ==
    [name |-> trim(cond.name),
     discount_percent |-> OrNumber(parseFloat(cond.discount_percent), 0),
     description |-> trim(cond.description),
     sort_order |-> Len(shown)]

\* a message between the panel and the server
SMessage(kind, body, rows) == [kind |-> kind, body |-> body, items |-> rows]

NoBody == [name |-> "", discount_percent |-> 0, description |-> "",
           sort_order |-> 0]

\* what the form, the wizard and the other panels hold meanwhile
SettingsFrame ==
    /\ UNCHANGED formVars
    /\ UNCHANGED importVars
    /\ UNCHANGED <<adminVars, quotationVars>>

\* what the exchange-rate card holds while the payment conditions are worked on
ConditionsFrame ==
    /\ UNCHANGED rateVars
    /\ SettingsFrame

\* a message about the exchange rate between the panel and the server;
\* rate 0 and the empty texts stand for a field that is absent
RateMessage(kind, val, source, detail) ==
    [kind |-> kind, rate |-> val, source |-> source, detail |-> detail]

RateRequest(kind) == RateMessage(kind, 0, "", "")

\* loadConditions up to its await; net is what is in flight already
loadConditions(net) ==
    snet' = net (+) SetToBag({SMessage("list", NoBody, <<>>)})

\* useEffect(() => { loadRate(); loadConditions(); }, [])
\* (opening the panel is the first operation of the operator)
mountSettings ==
    /\ sOps = 0
    /\ sOps' = 1
    /\ loadConditions(snet (+) SetToBag({RateRequest("rate")}))
    /\ UNCHANGED <<newCond, savingCond, paymentConditions, msg,
                   conditionStore, rateVars>>
    /\ SettingsFrame

\* onChange of the three inputs: setNewCond(p => ({ ...p, [field]: value }))
setNewCond(field, value) ==
    /\ sOps > 0
    /\ sOps < MaxSettingsOps
    /\ sOps' = sOps + 1
    /\ newCond' = [newCond EXCEPT ![field] = value]
    /\ UNCHANGED <<savingCond, paymentConditions, msg, conditionStore, snet>>
    /\ ConditionsFrame

\* handleAddCondition up to its await; the button is disabled while
\* savingCond
handleAddCondition ==
    /\ sOps > 0
    /\ sOps < MaxSettingsOps
    /\ sOps' = sOps + 1
    /\ ~savingCond
    /\ IF trim(newCond.name) = ""
       THEN /\ msg' = Notice("error", "El nombre es requerido")
            /\ UNCHANGED <<savingCond, snet>>
       ELSE /\ savingCond' = TRUE
            /\ snet' = snet (+) SetToBag(
                   {SMessage("add", ConditionBody(newCond, paymentConditions),
                             <<>>)})
            /\ UNCHANGED msg
    /\ UNCHANGED <<newCond, paymentConditions, conditionStore>>
    /\ ConditionsFrame

\* res.ok: notify, reset the inputs, reload the list
handleAddConditionOk(m) ==
    /\ BagIn(m, snet)
    /\ m.kind = "addOk"
    /\ msg' = Notice("success", "Condicion agregada")
    /\ newCond' = [name |-> "", discount_percent |-> "0", description |-> ""]
    /\ loadConditions(snet (-) SetToBag({m}))
    /\ savingCond' = FALSE
    /\ UNCHANGED <<paymentConditions, conditionStore, sOps>>
    /\ ConditionsFrame

\* !res.ok: notify the error
handleAddConditionError(m) ==
    /\ BagIn(m, snet)
    /\ m.kind = "addError"
    /\ msg' = Notice("error", "Error al guardar")
    /\ snet' = snet (-) SetToBag({m})
    /\ savingCond' = FALSE
    /\ UNCHANGED <<newCond, paymentConditions, conditionStore, sOps>>
    /\ ConditionsFrame

\* fetch rejects: there is no catch, only the finally branch runs
handleAddConditionThrown(m) ==
    /\ BagIn(m, snet)
    /\ m.kind = "addThrown"
    /\ snet' = snet (-) SetToBag({m})
    /\ savingCond' = FALSE
    /\ UNCHANGED <<newCond, paymentConditions, msg, conditionStore, sOps>>
    /\ ConditionsFrame

\* loadConditions after its await: if (res.ok) setConditions(await res.json())
loadConditionsOk(m) ==
    /\ BagIn(m, snet)
    /\ m.kind = "listOk"
    /\ paymentConditions' = m.items
    /\ snet' = snet (-) SetToBag({m})
    /\ UNCHANGED <<newCond, savingCond, msg, conditionStore, sOps>>
    /\ ConditionsFrame

\* loadConditions after its await: !res.ok, or catch {}
loadConditionsFailed(m) ==
    /\ BagIn(m, snet)
    /\ m.kind = "listError"
    /\ snet' = snet (-) SetToBag({m})
    /\ UNCHANGED <<newCond, savingCond, paymentConditions, msg,
                   conditionStore, sOps>>
    /\ ConditionsFrame

\* notify: setTimeout(() => setMsg(null), 3500)
clearMsg ==
    /\ msg # <<>>
    /\ msg' = <<>>
    /\ UNCHANGED <<newCond, savingCond, paymentConditions, conditionStore,
                   snet, sOps>>
    /\ ConditionsFrame

\* what the panel holds while the server works
SettingsState == UNCHANGED <<newCond, savingCond, paymentConditions, msg, sOps>>

\* PaymentCondition as stored: the body with its id, active
StoredCondition(id, body) ==
    [id |-> id, name |-> body.name,
     discount_percent |-> body.discount_percent,
     description |-> body.description, sort_order |-> body.sort_order,
     active |-> TRUE]

\* POST /admin/payment-conditions: the server stores the condition, or
\* answers with an error status, or the request fails
ServeAddCondition(m, outcome) ==
    /\ BagIn(m, snet)
    /\ m.kind = "add"
    /\ conditionStore' =
           IF outcome = "addOk"
           THEN Append(conditionStore,
                       StoredCondition(Len(conditionStore) + 1, m.body))
           ELSE conditionStore
    /\ snet' = (snet (-) SetToBag({m})) (+)
            SetToBag({SMessage(outcome, m.body, <<>>)})
    /\ SettingsState
    /\ ConditionsFrame

\* GET /admin/payment-conditions
ServeConditions(m, ok) ==
    /\ BagIn(m, snet)
    /\ m.kind = "list"
    /\ snet' = (snet (-) SetToBag({m})) (+)
            SetToBag({IF ok THEN SMessage("listOk", NoBody, conditionStore)
                            ELSE SMessage("listError", NoBody, <<>>)})
    /\ UNCHANGED conditionStore
    /\ SettingsState
    /\ ConditionsFrame

\* ---- the exchange rate ----

\* the texts typed into the manual rate input (type="number": a text that is
\* not a number reads as "")
RateTexts == {"", "0", "-10", "100", "150"}

\* the rates the BNA page gives
BnaRates == {150}

\* err.detail of a failed BNA query, "" when the response has none
BnaDetails == {"", "BNA no disponible"}

\* String(data.rate) on the rates above
String(n) ==
    CASE n = 100 -> "100"
      [] n = 150 -> "150"

\* ExchangeRate as the server returns it
ExchangeRate(val, source) == <<[rate |-> val, source |-> source]>>

\* what the payment conditions hold while the exchange rate is worked on
RateFrame ==
    /\ UNCHANGED <<newCond, savingCond, paymentConditions, conditionStore>>
    /\ SettingsFrame

\* loadRate up to its await; net is what is in flight already
loadRate(net) == snet' = net (+) SetToBag({RateRequest("rate")})

\* onChange of the manual rate input
setManualRate(value) ==
    /\ sOps > 0
    /\ sOps < MaxSettingsOps
    /\ sOps' = sOps + 1
    /\ manualRate' = value
    /\ UNCHANGED <<rate, loadingRate, loadingBna, storedRate, msg, snet>>
    /\ RateFrame

\* !val || val <= 0 is false
ValidRateNumber(val) == ~val.nan

ValidRate(val) == ~(val.nan \/ val.v = 0) /\ ~(val.v <= 0)

\* handleSaveManualRate up to its await; the button is disabled while
\* loadingRate
handleSaveManualRate ==
    /\ sOps > 0
    /\ sOps < MaxSettingsOps
    /\ sOps' = sOps + 1
    /\ ~loadingRate
    /\ LET val == parseFloat(manualRate)
       IN  IF ~ValidRate(val)
           THEN /\ msg' = Notice("error", "Ingresa un valor valido")
                /\ UNCHANGED <<loadingRate, snet>>
           ELSE /\ loadingRate' = TRUE
                /\ snet' = snet (+) SetToBag({RateMessage("save", val.v, "", "")})
                /\ UNCHANGED msg
    /\ UNCHANGED <<rate, manualRate, loadingBna, storedRate>>
    /\ RateFrame

\* res.ok: notify with the value sent, reload the rate
handleSaveManualRateOk(m) ==
    /\ BagIn(m, snet)
    /\ m.kind = "saveOk"
    /\ msg' = Notice("success",
                     "Tipo de cambio guardado: ARS " \o String(m.rate))
    /\ loadRate(snet (-) SetToBag({m}))
    /\ loadingRate' = FALSE
    /\ UNCHANGED <<rate, manualRate, loadingBna, storedRate, sOps>>
    /\ RateFrame

\* !res.ok: notify the error
handleSaveManualRateError(m) ==
    /\ BagIn(m, snet)
    /\ m.kind = "saveError"
    /\ msg' = Notice("error", "Error al guardar")
    /\ snet' = snet (-) SetToBag({m})
    /\ loadingRate' = FALSE
    /\ UNCHANGED <<rate, manualRate, loadingBna, storedRate, sOps>>
    /\ RateFrame

\* fetch rejects: there is no catch, only the finally branch runs
handleSaveManualRateThrown(m) ==
    /\ BagIn(m, snet)
    /\ m.kind = "saveThrown"
    /\ snet' = snet (-) SetToBag({m})
    /\ loadingRate' = FALSE
    /\ UNCHANGED <<rate, manualRate, loadingBna, storedRate, msg, sOps>>
    /\ RateFrame

\* handleFetchBna up to its await; the button is disabled while loadingBna
handleFetchBna ==
    /\ sOps > 0
    /\ sOps < MaxSettingsOps
    /\ sOps' = sOps + 1
    /\ ~loadingBna
    /\ loadingBna' = TRUE
    /\ snet' = snet (+) SetToBag({RateRequest("bna")})
    /\ UNCHANGED <<rate, manualRate, loadingRate, storedRate, msg>>
    /\ RateFrame

\* res.ok: notify, copy the rate into the input, reload the rate
handleFetchBnaOk(m) ==
    /\ BagIn(m, snet)
    /\ m.kind = "bnaOk"
    /\ msg' = Notice("success", "BNA: USD 1 = ARS " \o String(m.rate))
    /\ manualRate' = String(m.rate)
    /\ loadRate(snet (-) SetToBag({m}))
    /\ loadingBna' = FALSE
    /\ UNCHANGED <<rate, loadingRate, storedRate, sOps>>
    /\ RateFrame

\* !res.ok: notify err.detail || 'Error consultando BNA'
handleFetchBnaError(m) ==
    /\ BagIn(m, snet)
    /\ m.kind = "bnaError"
    /\ msg' = Notice("error", IF m.detail = "" THEN "Error consultando BNA"
                              ELSE m.detail)
    /\ snet' = snet (-) SetToBag({m})
    /\ loadingBna' = FALSE
    /\ UNCHANGED <<rate, manualRate, loadingRate, storedRate, sOps>>
    /\ RateFrame

\* fetch rejects: there is no catch, only the finally branch runs
handleFetchBnaThrown(m) ==
    /\ BagIn(m, snet)
    /\ m.kind = "bnaThrown"
    /\ snet' = snet (-) SetToBag({m})
    /\ loadingBna' = FALSE
    /\ UNCHANGED <<rate, manualRate, loadingRate, storedRate, msg, sOps>>
    /\ RateFrame

\* loadRate after its await: setRate(data);
\* if (data.rate) setManualRate(String(data.rate))
loadRateOk(m) ==
    /\ BagIn(m, snet)
    /\ m.kind = "rateOk"
    /\ rate' = IF m.rate = 0 THEN <<>> ELSE ExchangeRate(m.rate, m.source)
    /\ manualRate' = IF m.rate # 0 THEN String(m.rate) ELSE manualRate
    /\ snet' = snet (-) SetToBag({m})
    /\ UNCHANGED <<loadingRate, loadingBna, storedRate, msg, sOps>>
    /\ RateFrame

\* loadRate after its await: !res.ok, or catch {}
loadRateFailed(m) ==
    /\ BagIn(m, snet)
    /\ m.kind = "rateError"
    /\ snet' = snet (-) SetToBag({m})
    /\ UNCHANGED <<rate, manualRate, loadingRate, loadingBna, storedRate,
                   msg, sOps>>
    /\ RateFrame

\* what the panel holds while the server works on the exchange rate
RateState ==
    UNCHANGED <<rate, manualRate, loadingRate, loadingBna, msg, sOps>>

\* GET /admin/exchange-rate
ServeRate(m, ok) ==
    /\ BagIn(m, snet)
    /\ m.kind = "rate"
    /\ snet' = (snet (-) SetToBag({m})) (+)
            SetToBag({IF ~ok THEN RateRequest("rateError")
                      ELSE IF storedRate = <<>> THEN RateRequest("rateOk")
                      ELSE RateMessage("rateOk", storedRate[1].rate,
                                       storedRate[1].source, "")})
    /\ UNCHANGED storedRate
    /\ RateState
    /\ RateFrame

\* POST /admin/exchange-rate/manual: the server stores the rate, or answers
\* with an error status, or the request fails
ServeManualRate(m, outcome) ==
    /\ BagIn(m, snet)
    /\ m.kind = "save"
    /\ storedRate' = IF outcome = "saveOk" THEN ExchangeRate(m.rate, "manual")
                     ELSE storedRate
    /\ snet' = (snet (-) SetToBag({m})) (+)
            SetToBag({RateMessage(outcome, m.rate, "", "")})
    /\ RateState
    /\ RateFrame

\* POST /admin/exchange-rate/bna: the server stores the rate of the BNA
\* page, or answers with an error status and a detail, or the request fails
ServeBna(m, outcome, scraped, detail) ==
    /\ BagIn(m, snet)
    /\ m.kind = "bna"
    /\ storedRate' = IF outcome = "bnaOk" THEN ExchangeRate(scraped, "scraped")
                     ELSE storedRate
    /\ snet' = (snet (-) SetToBag({m})) (+)
            SetToBag({CASE outcome = "bnaOk" ->
                               RateMessage(outcome, scraped, "scraped", "")
                        [] outcome = "bnaError" ->
                               RateMessage(outcome, 0, "", detail)
                        [] OTHER -> RateRequest(outcome)})
    /\ RateState
    /\ RateFrame

SettingsInit ==
    /\ FormIdle
    /\ ImportIdle
    /\ PanelIdle

SettingsNext ==
    \/ mountSettings
    \/ \E value \in ConditionNames : setNewCond("name", value)
    \/ \E value \in DiscountTexts : setNewCond("discount_percent", value)
    \/ \E value \in ConditionDescriptions : setNewCond("description", value)
    \/ handleAddCondition
    \/ \E m \in BagToSet(snet) : handleAddConditionOk(m)
    \/ \E m \in BagToSet(snet) : handleAddConditionError(m)
    \/ \E m \in BagToSet(snet) : handleAddConditionThrown(m)
    \/ \E m \in BagToSet(snet) : loadConditionsOk(m)
    \/ \E m \in BagToSet(snet) : loadConditionsFailed(m)
    \/ clearMsg
    \/ \E m \in BagToSet(snet) :
           \E outcome \in {"addOk", "addError", "addThrown"} :
               ServeAddCondition(m, outcome)
    \/ \E m \in BagToSet(snet) : \E ok \in BOOLEAN : ServeConditions(m, ok)
    \/ \E value \in RateTexts : setManualRate(value)
    \/ handleSaveManualRate
    \/ \E m \in BagToSet(snet) : handleSaveManualRateOk(m)
    \/ \E m \in BagToSet(snet) : handleSaveManualRateError(m)
    \/ \E m \in BagToSet(snet) : handleSaveManualRateThrown(m)
    \/ handleFetchBna
    \/ \E m \in BagToSet(snet) : handleFetchBnaOk(m)
    \/ \E m \in BagToSet(snet) : handleFetchBnaError(m)
    \/ \E m \in BagToSet(snet) : handleFetchBnaThrown(m)
    \/ \E m \in BagToSet(snet) : loadRateOk(m)
    \/ \E m \in BagToSet(snet) : loadRateFailed(m)
    \/ \E m \in BagToSet(snet) : \E ok \in BOOLEAN : ServeRate(m, ok)
    \/ \E m \in BagToSet(snet) :
           \E outcome \in {"saveOk", "saveError", "saveThrown"} :
               ServeManualRate(m, outcome)
    \/ \E m \in BagToSet(snet) :
           \E outcome \in {"bnaOk", "bnaError", "bnaThrown"} :
               \E scraped \in BnaRates :
                   \E detail \in BnaDetails :
                       ServeBna(m, outcome, scraped, detail)

SettingsSpec == SettingsInit /\ [][SettingsNext]_vars

----------------------------------------------------------------------------
(* Claims about the pricing computation and the quotation form *)

InCatalog(code) == \E i \in DOMAIN machines : machines[i].code = code

\* the sum of the subtotals of lines k..Len(details)
RECURSIVE SumFrom(_, _)
SumFrom(details, k) ==
    IF k > Len(details) THEN 0
    ELSE details[k].subtotal + SumFrom(details, k + 1)

\* C1: for any line items and any discountPercent in [0,100],
\* grandTotal = grandSubtotal - grandSubtotal*discountPercent/100 and
\* grandTotal <= grandSubtotal.
C1_PricingCorrectness ==
    (rendered /\ discountPercent >= 0 /\ discountPercent <= 100) =>
        /\ grandTotal * 100 = grandSubtotal * 100 - grandSubtotal * discountPercent
        /\ grandTotal <= grandSubtotal

C1_Witness ==
    /\ rendered
    /\ Len(lineItems) = 2
    /\ discountPercent = 50
    /\ grandSubtotal > 0
    /\ grandTotal < grandSubtotal

\* C2: each line's subtotal is unitPrice * quantity, grandSubtotal is the sum
\* of the line subtotals, discountAmount = grandSubtotal*discountPercent/100;
\* [X1 x2, X2 x1] at prices X1=1000, X2=500 with discountPercent=10 gives
\* grandSubtotal=2500, discountAmount=250, grandTotal=2250.
C2_Example ==
    /\ Len(lineItems) = 2
    /\ lineItems[1].machineCode = "X1" /\ lineItems[1].quantity = 2
    /\ lineItems[2].machineCode = "X2" /\ lineItems[2].quantity = 1
    /\ machines[1].code = "X1" /\ machines[1].price = 1000
    /\ machines[2].code = "X2" /\ machines[2].price = 500
    /\ discountPercent = 10

C2_Totals ==
    rendered =>
        /\ Len(lineItemDetails) = Len(lineItems)
        /\ \A i \in DOMAIN lineItemDetails :
               /\ lineItemDetails[i].quantity = lineItems[i].quantity
               /\ lineItemDetails[i].subtotal =
                      lineItemDetails[i].unitPrice * lineItems[i].quantity
        /\ grandSubtotal = SumFrom(lineItemDetails, 1)
        /\ discountAmount * 100 = grandSubtotal * discountPercent
        /\ C2_Example =>
               /\ grandSubtotal = 2500
               /\ discountAmount = 250
               /\ grandTotal = 2250

C2_Witness ==
    /\ rendered
    /\ C2_Example
    /\ grandTotal = 2250

\* C3: pricing clamps an out-of-range discountPercent: above 100 it yields the
\* discountAmount and grandTotal of discountPercent=100, below 0 those of
\* discountPercent=0.
C3_Clamping ==
    rendered =>
        /\ discountPercent > 100 =>
               (discountAmount = grandSubtotal /\ grandTotal = 0)
        /\ discountPercent < 0 =>
               (discountAmount = 0 /\ grandTotal = grandSubtotal)

\* C4: in every state reached through the handlers of the form, with
\* non-negative catalog prices, grandTotal is never negative and
\* discountAmount never exceeds grandSubtotal.
C4_NoNegativeTotal ==
    /\ grandTotal >= 0
    /\ discountAmount <= grandSubtotal

\* C5: after any sequence of the line-item handlers every line item has an
\* integer quantity >= 1; a requested quantity that is 0, negative or not a
\* number is treated as 1, and pricing never uses a quantity below 1.
RequestedBelowOne(text) ==
    parseInt(text).nan \/ parseInt(text).v <= 0

C5_QuantityFloor ==
    /\ \A i \in DOMAIN lineItems :
           lineItems[i].quantity \in Nat /\ lineItems[i].quantity >= 1
    /\ \A i \in DOMAIN lineItemDetails : lineItemDetails[i].quantity >= 1
    /\ (lastCall.handler = "updateQuantityInput"
            /\ RequestedBelowOne(lastCall.text)) =>
           \A i \in DOMAIN lineItems :
               lineItems[i].id = lastCall.id => lineItems[i].quantity = 1
    /\ (lastCall.handler = "handleMachineSelect") =>
           \A i \in DOMAIN lineItems :
               lineItems[i].machineCode = lastCall.id
                   => lineItems[i].quantity >= 1

C5_Witness ==
    /\ lastCall.handler = "updateQuantityInput"
    /\ lastCall.text \in {"0", "-3", ""}
    /\ \E i \in DOMAIN lineItems :
           /\ lineItems[i].id = lastCall.id
           /\ lineItems[i].quantity = 1
           /\ lineItemDetails[i].subtotal > 0

\* C6: a line item whose machineCode is not in the loaded catalog is priced
\* with unitPrice = 0 and subtotal = 0, and the computation still yields all
\* of lines, grandSubtotal, discountAmount and grandTotal.
C6_UnknownCode ==
    rendered =>
        /\ Len(lineItemDetails) = Len(lineItems)
        /\ \A i \in DOMAIN lineItems :
               ~InCatalog(lineItems[i].machineCode) =>
                   /\ lineItemDetails[i].machineCode = lineItems[i].machineCode
                   /\ lineItemDetails[i].unitPrice = 0
                   /\ lineItemDetails[i].subtotal = 0
        /\ grandSubtotal \in Int
        /\ discountAmount \in Int
        /\ grandTotal \in Int
        /\ grandSubtotal = SumFrom(lineItemDetails, 1)

C6_Witness ==
    /\ rendered
    /\ Len(lineItems) = 2
    /\ \E i \in DOMAIN lineItems :
           /\ ~InCatalog(lineItems[i].machineCode)
           /\ lineItemDetails[i].subtotal = 0
    /\ grandSubtotal > 0

\* C7: lines, grandSubtotal, discountAmount and grandTotal depend only on the
\* numeric unit prices, the quantities and discountPercent: two computations
\* that differ only in price_currency tags or in the ExchangeRate give
\* identical results.
SamePrices(ms1, ms2) ==
    /\ Len(ms1) = Len(ms2)
    /\ \A i \in DOMAIN ms1 :
           ms1[i].code = ms2[i].code /\ ms1[i].price = ms2[i].price

Lines(details) ==
    [i \in DOMAIN details |->
        [machineCode |-> details[i].machineCode,
         quantity |-> details[i].quantity,
         unitPrice |-> details[i].unitPrice,
         subtotal |-> details[i].subtotal]]

C7_NoCurrencyConversion ==
    [][(/\ rendered /\ rendered'
        /\ lineItems' = lineItems
        /\ discountPercent' = discountPercent
        /\ SamePrices(machines, machines'))
       => /\ Lines(lineItemDetails') = Lines(lineItemDetails)
          /\ grandSubtotal' = grandSubtotal
          /\ discountAmount' = discountAmount
          /\ grandTotal' = grandTotal]_vars

C7_Witness ==
    /\ rendered
    /\ lastCall.handler = "priceRetagged"
    /\ exchangeRate = 1000
    /\ \E i \in DOMAIN lineItems :
           /\ lineItems[i].machineCode = lastCall.id
           /\ lineItemDetails[i].subtotal > 0
    /\ \E i, j \in DOMAIN machines :
           machines[i].price_currency # machines[j].price_currency

----------------------------------------------------------------------------
(* Claims about the Import Reconciler *)

\* the confirm call applied last
LastCall == history[Len(history)]

\* product p and row agree on the fields an import writes
Written(row, p) ==
    /\ row.code = p.code
    /\ row.name = p.name
    /\ row.price = p.price
    /\ row.price_currency = p.price_currency

\* the code of products[j] does not occur later among the products in ok
LastWithCode(prods, ok, j) ==
    \A k \in ok : prods[k].code = prods[j].code => k <= j

\* no machine row is removed or moved by call h
RowsKept(h) ==
    /\ Len(h.after) >= Len(h.before)
    /\ \A i \in DOMAIN h.before : h.after[i].code = h.before[i].code

\* the machines of call h that are absent from the incoming set and were
\* active are inactive afterwards
MissingDeactivated(h) ==
    \A i \in DOMAIN h.before :
        (h.before[i].active /\ h.before[i].code \notin IncomingCodes(h.products))
            => (~h.after[i].active
                /\ h.after[i] = [h.before[i] EXCEPT !.active = FALSE])

\* the products of call h with index in ok are updated when their code
\* matches a machine and created when it does not
UpsertedAll(h, ok) ==
    \A j \in ok :
        LET p == h.products[j]
            old == RowOfCode(h.before, p.code)
            new == RowOfCode(h.after, p.code)
        IN  /\ new # 0
            /\ old # 0 => new = old
            /\ old = 0 => (new > Len(h.before) /\ h.after[new].active)
            /\ LastWithCode(h.products, ok, j) => Written(h.after[new], p)

ValidProducts(h) == {j \in DOMAIN h.products : ~Invalid(h.products[j])}

\* C8 as stated: after confirm with replace_existing=true every machine that
\* was active and is not in the incoming set is inactive, every incoming
\* product whose code matches a machine is updated, every incoming product
\* with a new code is created, and no machine row is removed.
C8_ReplaceSemantics_AsStated ==
    (history # <<>> /\ LastCall.replace_existing) =>
        /\ MissingDeactivated(LastCall)
        /\ UpsertedAll(LastCall, DOMAIN LastCall.products)
        /\ RowsKept(LastCall)

\* C8 amended: after confirm with replace_existing=true every machine that
\* was active and is not in the incoming set is inactive, every incoming
\* product that is applied without error is updated when its code matches a
\* machine and created when it does not, a product that fails is reported in
\* errors, and no machine row is removed.
C8_ReplaceSemantics ==
    (history # <<>> /\ LastCall.replace_existing) =>
        /\ MissingDeactivated(LastCall)
        /\ UpsertedAll(LastCall, ValidProducts(LastCall))
        /\ Len(LastCall.result.errors) =
               Len(LastCall.products) - Cardinality(ValidProducts(LastCall))
        /\ LastCall.result.imported + LastCall.result.updated =
               Cardinality(ValidProducts(LastCall))
        /\ RowsKept(LastCall)

\* existing active {A,B,C}, incoming {B,D}: A and C inactive, B updated,
\* D created
C8_Witness ==
    /\ history # <<>>
    /\ LastCall.replace_existing
    /\ LastCall.before = InitialCatalog
    /\ IncomingCodes(LastCall.products) = {"B", "D"}
    /\ ValidProducts(LastCall) = DOMAIN LastCall.products
    /\ Len(catalog) = 4
    /\ ~catalog[1].active /\ catalog[1].code = "A"
    /\ catalog[2].active /\ catalog[2].code = "B" /\ catalog[2].price = 1200
    /\ ~catalog[3].active /\ catalog[3].code = "C"
    /\ catalog[4].active /\ catalog[4].code = "D"
    /\ LastCall.result.updated = 1 /\ LastCall.result.imported = 1

\* C9: after confirm with replace_existing=false every existing machine
\* whose code is not in the incoming set is unchanged in every field,
\* including its active flag.
C9_MergeLeavesOthers ==
    (history # <<>> /\ ~LastCall.replace_existing) =>
        \A i \in DOMAIN LastCall.before :
            LastCall.before[i].code \notin IncomingCodes(LastCall.products)
                => /\ i \in DOMAIN catalog
                   /\ catalog[i] = LastCall.before[i]

C9_Witness ==
    /\ history # <<>>
    /\ ~LastCall.replace_existing
    /\ LastCall.result.updated = 1
    /\ catalog # LastCall.before
    /\ \E i \in DOMAIN LastCall.before :
           /\ LastCall.before[i].code \notin IncomingCodes(LastCall.products)
           /\ catalog[i].active

\* two confirm calls in a row with the same products and
\* replace_existing=false
ConfirmedTwice ==
    /\ Len(history) = 2
    /\ history[1].products = history[2].products
    /\ ~history[1].replace_existing
    /\ ~history[2].replace_existing

\* C10 as stated: the second of two such calls yields imported=0 and
\* updated=N, N the number of products in the input.
C10_Idempotence_AsStated ==
    ConfirmedTwice =>
        /\ history[2].result.imported = 0
        /\ history[2].result.updated = Len(history[2].products)

\* C10 amended: the second of two such calls yields imported=0 and
\* updated = N minus the number of products reported in errors (N when no
\* product fails), because every product applied without error matches an
\* existing machine by exact, case-sensitive code.
C10_Idempotence ==
    ConfirmedTwice =>
        /\ history[2].result.imported = 0
        /\ history[2].result.updated =
               Len(history[2].products) - Len(history[2].result.errors)
        /\ ValidProducts(history[2]) = DOMAIN history[2].products
               => history[2].result.updated = Len(history[2].products)
        /\ \A j \in ValidProducts(history[2]) :
               \E i \in DOMAIN history[2].before :
                   history[2].before[i].code = history[2].products[j].code

C10_Witness ==
    /\ ConfirmedTwice
    /\ Len(history[2].products) = 2
    /\ history[1].result.imported = 1
    /\ history[2].result.imported = 0
    /\ history[2].result.updated = 2

----------------------------------------------------------------------------
(* Claims about partial failure, hard deletion and concurrent confirms *)

\* the products of call h that fail, in input order
FailedProducts(h) == SelectSeq(h.products, Invalid)

\* no product of call h that is applied has the code of p
NotApplied(h, p) ==
    \A j \in ValidProducts(h) : h.products[j].code # p.code

\* call h wrote nothing for product p: its machine has the fields it had,
\* and no machine was created for it
Unwritten(h, p) ==
    LET old == RowOfCode(h.before, p.code)
    IN  IF old = 0 THEN RowOfCode(h.after, p.code) = 0
        ELSE Written(h.after[old], h.before[old])

StepOf(handler, id) ==
    lastCall'.handler = handler /\ lastCall'.num = id

\* every machine of the Catalog Store is still there after the step, with
\* its code unless the admin has edited it
MachinesKept ==
    /\ Len(catalog') >= Len(catalog)
    /\ \A i \in DOMAIN catalog :
           \/ catalog'[i].code = catalog[i].code
           \/ StepOf("handleUpdateMachine", i)

\* a step of handleDeleteMachine changes nothing but the active flag of the
\* machine, to false, in the Catalog Store and in the admin list
OnlyDeactivated ==
    \A id \in DOMAIN catalog :
        StepOf("handleDeleteMachine", id) =>
            /\ \/ catalog' = catalog
               \/ catalog' = [catalog EXCEPT ![id].active = FALSE]
            /\ Len(adminList') = Len(adminList)
            /\ \A i \in DOMAIN adminList :
                   \/ adminList'[i] = adminList[i]
                   \/ /\ adminList[i].id = id
                      /\ adminList'[i] = [adminList[i] EXCEPT !.active = FALSE]

\* C12: no operation removes a machine: after any sequence of admin
\* create, update and deactivate actions and import confirms with either
\* replace flag every machine that once existed is still present, and
\* deactivating a machine changes only its active flag, to false.
C12_NoHardDelete == [][MachinesKept /\ OnlyDeactivated]_vars

\* a machine created by the admin and then deactivated is still in the
\* Catalog Store and in the admin list, inactive
C12_Witness ==
    /\ lastCall.handler = "handleDeleteMachine"
    /\ Len(catalog) = Len(InitialCatalog) + 1
    /\ lastCall.num = Len(catalog)
    /\ ~catalog[lastCall.num].active
    /\ \E i \in DOMAIN adminList :
           adminList[i].id = lastCall.num /\ ~adminList[i].active

\* code is unique among the machines
UniqueCodes(cat) ==
    \A i, j \in DOMAIN cat : i # j => cat[i].code # cat[j].code

\* row i holds the fields it had before the calls, or the fields of one
\* product of one call
WrittenByOne(i) ==
    \/ i \in DOMAIN InitialCatalog /\ Written(catalog[i], InitialCatalog[i])
    \/ \E c \in DOMAIN calls : \E j \in DOMAIN calls[c].products :
           /\ ~Invalid(calls[c].products[j])
           /\ Written(catalog[i], calls[c].products[j])

\* call c has ended without a failure other than its invalid products, and
\* each of its other products has its one machine
EndedWell(c) ==
    LET h == calls[c]
    IN  /\ h.errors = [i \in DOMAIN FailedProducts(h) |->
                           ErrorMessage(FailedProducts(h)[i])]
        /\ h.imported + h.updated = Cardinality(ValidProducts(h))
        /\ \A j \in ValidProducts(h) :
               RowOfCode(catalog, h.products[j].code) # 0

\* C13: when confirm calls on overlapping machine codes run concurrently,
\* every machine row holds a state written entirely by one call, never a
\* mixture of fields of two, machine codes stay unique, and a creation that
\* races with another creation of the same code ends as an update of the
\* one row, not as a second row or a failure of the call.
C13_ConcurrentConfirms ==
    /\ UniqueCodes(catalog)
    /\ \A i \in DOMAIN catalog : WrittenByOne(i)
    /\ \A c \in DOMAIN calls : calls[c].phase = "done" => EndedWell(c)

\* two calls have ended, both have written D, one created it and the
\* creation of the other was retried as an update
C13_Witness ==
    /\ Len(calls) >= 2
    /\ \A c \in DOMAIN calls : calls[c].phase = "done"
    /\ \E c \in DOMAIN calls : calls[c].retried > 0
    /\ \E c \in DOMAIN calls : calls[c].imported = 1
    /\ calls[1].products # calls[2].products
    /\ Len(catalog) = Len(InitialCatalog) + 1
    /\ catalog[Len(catalog)].code = "D"

----------------------------------------------------------------------------
(* Claims about the import wizard *)

\* the confirm requests sent by the step
SentConfirms == {m \in network' \ network : m.kind = "confirm"}

\* the products marked in the preview
Marked == {i \in DOMAIN products : products[i]._selected}

\* request m carries the marked products of the preview, each once, in the
\* order of the preview, and no other product
CarriesMarked(m) ==
    /\ Len(m.products) = Cardinality(Marked)
    /\ \A i \in Marked :
           Written(m.products[Cardinality({j \in Marked : j <= i})],
                   products[i])

\* a confirm call is applied to the products of a request that was sent
AppliedAsSent ==
    history' # history =>
        \E m \in network :
            /\ m.kind = "confirm"
            /\ history'[Len(history')].products = m.products

\* every machine that call h wrote or created holds the fields of one of
\* the products of the request
OnlySentWritten(h) ==
    \A i \in DOMAIN h.after :
        (i \notin DOMAIN h.before \/ ~Written(h.after[i], h.before[i]))
            => \E j \in DOMAIN h.products : Written(h.after[i], h.products[j])

\* C14: the confirm request contains exactly the products that are marked
\* selected in the preview at the moment of confirming; products not marked
\* are never sent and have no effect on the catalog.
C14_OnlySelectedSent ==
    [][/\ \A m \in SentConfirms : CarriesMarked(m)
       /\ AppliedAsSent
       /\ history' # history => OnlySentWritten(history'[Len(history')])
      ]_vars

\* the import is done with B marked and D not marked: B is updated and the
\* catalog has no machine D
C14_Witness ==
    /\ DoneView
    /\ Len(products) = 2
    /\ products[1]._selected /\ ~products[2]._selected
    /\ LastCall.products = <<Product("B", "Tolva B", 1200, "USD")>>
    /\ result[1].updated = 1 /\ result[1].imported = 0
    /\ RowOfCode(catalog, products[2].code) = 0
    /\ catalog[RowOfCode(catalog, "B")].price = 1200

\* C15: a product whose price is unknown (null) is never committed by an
\* import: whatever toggleProduct, select-all, select-none and updateProduct
\* edits were made in the preview, every product sent in a confirm request
\* has a price that is not null and is >= 0.
C15_NoNullPriceSent ==
    \A m \in network :
        m.kind = "confirm" =>
            \A j \in DOMAIN m.products :
                /\ m.products[j].price # NullPrice
                /\ m.products[j].price >= 0

\* the fields of a ParsedProduct of the persistence schema
ProductFields == {"code", "name", "price", "price_currency"}

\* C16: the review-only fields _selected and _expanded never appear in any
\* product of the confirm request body, whatever selection toggles,
\* expansions and edits preceded the confirm.
C16_NoReviewFieldsSent ==
    \A m \in network :
        m.kind = "confirm" =>
            \A j \in DOMAIN m.products :
                /\ "_selected" \notin DOMAIN m.products[j]
                /\ "_expanded" \notin DOMAIN m.products[j]
                /\ DOMAIN m.products[j] = ProductFields

\* a confirm request is in flight for two products, sent after a product
\* was expanded and another was marked
C16_Witness ==
    /\ step = "confirming"
    /\ edits = 2
    /\ products[1]._expanded /\ products[1]._selected
    /\ products[2]._selected
    /\ \E m \in network :
           /\ m.kind = "confirm"
           /\ Len(m.products) = 2
           /\ m.products[1].code = products[1].code
           /\ m.products[2].code = products[2].code

\* the failed preview responses the step hands to the wizard
FailedPreviews == {m \in network \ network' : m.kind = "previewError"}

\* the wizard holds no preview: no products and no payment conditions
NothingHeld == preview = Null /\ products = <<>> /\ conditions = <<>>

\* C17: when the preview (parse) call fails, the error message is shown to
\* the operator as received, the wizard returns to step 'idle', and the
\* failed call leaves no products or payment conditions of a partial
\* preview in the wizard's state.
C17_ParseFailure ==
    [][\A m \in FailedPreviews :
           /\ error' = Some(m.detail)
           /\ step' = "idle"
           /\ UploadView'
           /\ UNCHANGED <<preview, products, conditions>>
           /\ preview = Null => NothingHeld'
      ]_vars

\* the parse of an unreadable document has failed: the wizard is idle, shows
\* the message of the server and holds nothing
C17_Witness ==
    /\ step = "idle"
    /\ error = Some(ParseErrorDetail)
    /\ NothingHeld
    /\ nextReq = 1
    /\ network = {}

(***************************************************************************)
(* Claims about the quotation store.                                       *)
(***************************************************************************)

\* the log of the store operations asked for quotation i
LogOf(i) == trail[i].log

\* the k-th operation on quotation i is a softDelete that found it deleted
DeletedAgain(i, k) ==
    /\ k > 1
    /\ LogOf(i)[k].op = "softDelete"
    /\ LogOf(i)[k - 1].op = "softDelete"
    /\ LogOf(i)[k - 1].ok

\* C18: a softDelete of a quotation that is already deleted succeeds, and
\* the quotation is deleted after it as it was after the first softDelete
C18_SoftDeleteIdempotent ==
    \A i \in DOMAIN quotations :
        \A k \in DOMAIN LogOf(i) :
            DeletedAgain(i, k) =>
                /\ LogOf(i)[k].ok
                /\ k = Len(LogOf(i)) => quotations[i].is_deleted

\* a quotation was deleted twice in a row and the panel was told so
C18_Witness ==
    \E i \in DOMAIN quotations :
        /\ DeletedAgain(i, Len(LogOf(i)))
        /\ LogOf(i)[Len(LogOf(i))].ok
        /\ quotations[i].is_deleted
        /\ message = Notice("success", "Cotizacion ocultada.")

\* the fields of a quotation that are not audit fields of the deletion
NonAudit(q) ==
    [id |-> q.id, machine_code |-> q.machine_code,
     client_cuit |-> q.client_cuit, client_name |-> q.client_name,
     client_discount_percent |-> q.client_discount_percent,
     additional_discount_percent |-> q.additional_discount_percent,
     total_discount_percent |-> q.total_discount_percent,
     original_price |-> q.original_price, final_price |-> q.final_price,
     options_data |-> q.options_data, created_at |-> q.created_at]

\* quotation i was created, then deleted, then restored
RoundTrip(i) ==
    /\ Len(LogOf(i)) = 2
    /\ LogOf(i)[1] = [op |-> "softDelete", ok |-> TRUE]
    /\ LogOf(i)[2].op = "restore"

\* C19: after create, softDelete and restore the quotation is not deleted
\* and every non-audit field has the value it had right after create
C19_RoundTrip ==
    \A i \in DOMAIN quotations :
        RoundTrip(i) =>
            /\ LogOf(i)[2].ok
            /\ ~quotations[i].is_deleted
            /\ NonAudit(quotations[i]) = NonAudit(trail[i].created)

\* a quotation went the round trip and the panel lists it as active again
C19_Witness ==
    \E i \in DOMAIN quotations :
        /\ RoundTrip(i)
        /\ ~quotations[i].is_deleted
        /\ ~loading
        /\ \E j \in DOMAIN shownItems :
               shownItems[j].id = i /\ ~shownItems[j].is_deleted

(***************************************************************************)
(* Claims about the settings panel.                                        *)
(***************************************************************************)

\* C20: no add-condition request in flight carries a discount_percent
\* below 0 or above 100
C20_DiscountInRange ==
    \A m \in BagToSet(snet) :
        m.kind = "add" =>
            /\ m.body.discount_percent >= 0
            /\ m.body.discount_percent <= 100


\* the value in the manual rate input is empty, not a number, zero or
\* negative
RateRefused == parseFloat(manualRate).nan \/ parseFloat(manualRate).v <= 0

\* C21: handleSaveManualRate with an empty, non-numeric, zero or negative
\* value sends nothing and shows the error; every save request in flight
\* carries a positive rate
C21_PositiveRate ==
    /\ [][handleSaveManualRate /\ RateRefused =>
             /\ snet' = snet
             /\ loadingRate' = loadingRate
             /\ msg' = Notice("error", "Ingresa un valor valido")]_vars
    /\ [](\A m \in BagToSet(snet) : m.kind = "save" => m.rate > 0)

\* the operator was refused a zero or negative rate and nothing was sent,
\* while the server holds the rate stored before
C21_Witness ==
    /\ manualRate \in {"0", "-10"}
    /\ msg = Notice("error", "Ingresa un valor valido")
    /\ ~loadingRate
    /\ \A m \in BagToSet(snet) : m.kind # "save"
    /\ storedRate # <<>>

(***************************************************************************)
(* Claims about the line items of the quotation form.                      *)
(***************************************************************************)

\* the step is a click on the machine with this code in the selector
ChosenInSelector(code) ==
    /\ lastCall'.handler \in {"handleMachineSelect", "handleMachineClick"}
    /\ lastCall'.id = code

\* the line of this code has one more, every other line is as it was
Incremented(code) ==
    /\ Len(lineItems') = Len(lineItems)
    /\ \A i \in DOMAIN lineItems :
           /\ lineItems'[i].machineCode = lineItems[i].machineCode
           /\ lineItems'[i].quantity =
                  IF lineItems[i].machineCode = code
                  THEN lineItems[i].quantity + 1
                  ELSE lineItems[i].quantity

\* one line of this code with quantity 1 is appended
AppendedOne(code) ==
    /\ Len(lineItems') = Len(lineItems) + 1
    /\ SubSeq(lineItems', 1, Len(lineItems)) = lineItems
    /\ lineItems'[Len(lineItems')].machineCode = code
    /\ lineItems'[Len(lineItems')].quantity = 1

\* C22: choosing a machine whose code is in the line items adds 1 to the
\* quantity of its line and adds no line; choosing any other machine appends
\* one line with quantity 1
C22_SelectorChoice ==
    [][\A i \in DOMAIN machines :
           ChosenInSelector(machines[i].code) =>
               IF HasCode(lineItems, machines[i].code)
               THEN Incremented(machines[i].code)
               ELSE AppendedOne(machines[i].code)]_vars

\* the step changes the line items through one of the four handlers
LineItemsStep ==
    lastCall'.handler \in {"handleMachineSelect", "adjustQuantity",
                           "updateQuantityInput", "removeLineItem"}

\* no two line items have the same machineCode
OneLinePerCode(items) ==
    \A i, j \in DOMAIN items :
        items[i].machineCode = items[j].machineCode => i = j

\* the line with this id is gone and every other line is as it was, in
\* the same order
RemovedOnly(id) ==
    \E k \in DOMAIN lineItems :
        /\ lineItems[k].id = id
        /\ Len(lineItems') = Len(lineItems) - 1
        /\ \A i \in DOMAIN lineItems' :
               lineItems'[i] = lineItems[IF i < k THEN i ELSE i + 1]

\* C23: the four handlers keep one line per machineCode, and
\* removeLineItem(id) removes the line with that id and no other
C23_LineItems ==
    [][/\ LineItemsStep => OneLinePerCode(lineItems')
       /\ lastCall'.handler = "removeLineItem" => RemovedOnly(lastCall'.id)]_vars

\* one of two lines was removed and the other is left with its quantity
C23_Witness ==
    /\ lastCall.handler = "removeLineItem"
    /\ Len(lineItems) = 1
    /\ lineItems[1].quantity > 1
    /\ lineItems[1].id # lastCall.id

(***************************************************************************)
(* Claims about the steps of the import wizard.                            *)
(***************************************************************************)

\* C24: in step 'done' a confirm result is set, in step 'preview' or
\* 'confirming' the preview data is set, and in step 'idle' the products,
\* the payment conditions, the preview and the result are all empty
C24_StepInvariant ==
    /\ step = "done" => result # Null
    /\ step \in {"preview", "confirming"} => preview # Null
    /\ step = "idle" =>
           /\ products = <<>>
           /\ conditions = <<>>
           /\ preview = Null
           /\ result = Null

\* the wizard handles the response m in this step
ResponseHandled(m) ==
    /\ m \in network
    /\ m.kind \in {"previewOk", "previewError", "confirmOk", "confirmError"}
    /\ network' = network \ {m}

\* C25: once reset has run, the response to a request that was started
\* before the reset changes neither the step, nor the products, nor the
\* result, and onImportComplete is not called for it.
C25_ResetAbandons ==
    [][\A m \in network :
           ResponseHandled(m) /\ issued[m.id].abandoned =>
               /\ step' = step
               /\ products' = products
               /\ result' = result
               /\ ~issued'[m.id].completed]_vars

\* the requests of the wizard that are outstanding: sent, and the response
\* not yet handled by its continuation
InFlight == {m.id : m \in network}

\* C26: the wizard never has two of its own requests in flight at once.
C26_OneInFlight == Cardinality(InFlight) <= 1

\* C27: when a confirm request fails, the wizard is back in step 'preview'
\* with the error shown and with the products (selection flags and edits
\* included), the payment conditions and the replace flag exactly as they
\* were when confirm was pressed.
C27_ConfirmFailureKeepsReview ==
    [][\A m \in network :
           ResponseHandled(m) /\ m.kind = "confirmError" =>
               /\ step' = "preview"
               /\ error' # Null
               /\ Selection(products') = issued[m.id].products
               /\ conditions' = issued[m.id].conditions
               /\ replaceExisting' = issued[m.id].replace_existing]_vars

\* a list request, or a delete or restore whose refresh is still to come,
\* is outstanding
ListInFlight == BagToSet(qnet) # {}

\* C28: offset is a non-negative multiple of the page size and, whenever no
\* list request is in flight, the current page does not exceed the total
\* number of pages.
C28_PageInRange ==
    /\ offset >= 0
    /\ offset % PAGE_SIZE = 0
    /\ ~ListInFlight => currentPage <= totalPages

\* no request of the panel is outstanding, the last load did not fail, and
\* the server has returned a page for the current includeDeleted and offset
ListsCompleted ==
    /\ BagToSet(qnet) = {}
    /\ listError = <<>>
    /\ <<includeDeleted, offset>> \in DOMAIN returned

\* C29: once every overlapping list request has completed, the items and
\* the total on screen are those the server returned last for the current
\* includeDeleted flag and offset.
C29_CurrentListShown ==
    ListsCompleted =>
        /\ shownItems = returned[<<includeDeleted, offset>>].items
        /\ total = returned[<<includeDeleted, offset>>].total

\* the two lists of line items have the same machine codes and quantities
SameLines(a, b) ==
    /\ Len(a) = Len(b)
    /\ \A i \in DOMAIN a :
           /\ a[i].machineCode = b[i].machineCode
           /\ a[i].quantity = b[i].quantity

\* C30: the body handleSubmit sends reflects every line item: a form state
\* that differs from the one submitted before in a line's machine code or
\* quantity sends a different body, and with no line items nothing is sent.
C30_BodyReflectsLines ==
    [][handleSubmit =>
           IF lineItems = <<>> THEN sent' = sent
           ELSE (sent # <<>> /\ ~SameLines(sent[1].lineItems, lineItems)) =>
                    sent'[1].body # sent[1].body]_vars

====
